---- MODULE Spec2Model ----
(***************************************************************************)
(* Model of the Servo CIE driver (src/source/ciedriver.py, class ServoCIE):*)
(* the frame codec, the command engine, the channel registry and the       *)
(* incremental stream decoder readDataStream.                              *)
(*                                                                         *)
(* Byte strings and text strings are sequences of character codes 0..255.  *)
(* An uncaught Python exception ends the calling process (the callers in   *)
(* gui.py and test.py catch none): it is recorded in `raised` and no       *)
(* operation runs afterwards.                                              *)
(***************************************************************************)
EXTENDS Integers, Sequences, FiniteSets, TLC

(***************************************************************************)
(* Bounds of the model.                                                    *)
(***************************************************************************)
MaxWaiting == 3   \* bytes the transport holds unread
MaxBytes == 3     \* stream bytes the device transmits unscripted
MaxShort == 2     \* length of the arbitrary byte strings among the scripts
MaxDeltas == 2    \* differential values of a scripted curve message
MaxValues == 4    \* two-byte values of a scripted breath or setting message
MaxFrame == 3     \* length of the arbitrary byte strings given to the codec
MaxBody == 2      \* length of the bodies of the text frames given to the codec

(***************************************************************************)
(* Protocol constants.                                                     *)
(***************************************************************************)
_endOfTransmission == 4
_escape == 27
_endFlag == 127
_phaseFlag == 129
_valueFlag == 128
_errorFlag == 224
_inspPhase == 16
_pausePhase == 32
_expPhase == 48

dataCategories == <<"C", "B", "T", "S", "A", "E">>
Categories == {dataCategories[i] : i \in 1..Len(dataCategories)}

StreamStates == {"END_FLAG", "CHECK_SUM", "ERROR", "PHASE_FLAG", "PHASE_DATA",
                 "CURVE_VAL_FLAG", "CURVE_FIRST_BYTE", "CURVE_SECND_BYTE",
                 "DIFF_VAL_BYTE", "BREATH_FLAG", "BREATH_FIRST_BYTE",
                 "BREATH_SECND_BYTE", "SETTING_FIRST_BYTE", "SETTING_SECND_BYTE"}

\* Error enum: member name by value.
Error == [c \in {0} \cup (9..20) |->
            CASE c = 0 -> "NO_ERROR" [] c = 9 -> "CIE_ERROR" [] c = 10 -> "INVALID"
              [] c = 11 -> "SYNTAX" [] c = 12 -> "OUT_OF_RANGE" [] c = 13 -> "NO_DATA"
              [] c = 14 -> "TREND_BUF_OVF" [] c = 15 -> "CH_UNDEFINED"
              [] c = 16 -> "CIE_NOTCONF" [] c = 17 -> "STANDBY" [] c = 18 -> "TX_CHKSUM"
              [] c = 19 -> "BUFFER_FUll" [] c = 20 -> "RX_CHKSUM"]

(***************************************************************************)
(* Python string and bytes primitives.                                     *)
(***************************************************************************)
Ord == [c \in {"0","1","2","3","4","5","6","7","8","9","A","B","C","D","E","F",
               "H","I","O","P","R","S","T","U","V","Y","a","b","c","d","e","f","x",
               ",","+","-"," "} |->
          CASE c = "0" -> 48 [] c = "1" -> 49 [] c = "2" -> 50 [] c = "3" -> 51
            [] c = "4" -> 52 [] c = "5" -> 53 [] c = "6" -> 54 [] c = "7" -> 55
            [] c = "8" -> 56 [] c = "9" -> 57
            [] c = "A" -> 65 [] c = "B" -> 66 [] c = "C" -> 67 [] c = "D" -> 68
            [] c = "E" -> 69 [] c = "F" -> 70 [] c = "H" -> 72 [] c = "I" -> 73
            [] c = "O" -> 79 [] c = "P" -> 80 [] c = "R" -> 82 [] c = "S" -> 83
            [] c = "T" -> 84 [] c = "U" -> 85 [] c = "V" -> 86 [] c = "Y" -> 89
            [] c = "a" -> 97 [] c = "b" -> 98 [] c = "c" -> 99 [] c = "d" -> 100
            [] c = "e" -> 101 [] c = "f" -> 102 [] c = "x" -> 120
            [] c = "," -> 44 [] c = "+" -> 43 [] c = "-" -> 45 [] c = " " -> 32]

\* A bytes/str literal, written as a tuple of one-character strings.
Lit(t) == [i \in 1..Len(t) |-> Ord[t[i]]]

Min(a, b) == IF a < b THEN a ELSE b
Max(a, b) == IF a > b THEN a ELSE b

\* s[i:j] with Python's index normalisation (negative indices count from the end).
PyNorm(k, n) == IF k < 0 THEN Max(n + k, 0) ELSE Min(k, n)
PySlice(s, i, j) ==
    LET a == PyNorm(i, Len(s))
        b == PyNorm(j, Len(s))
    IN IF a < b THEN SubSeq(s, a + 1, b) ELSE <<>>
PyFrom(s, i) == PySlice(s, i, Len(s))       \* s[i:]
PyTo(s, j) == PySlice(s, 0, j)              \* s[:j]

\* Lower-case hexadecimal digits of n >= 0, most significant first, no padding.
RECURSIVE HexDigits(_)
HexDigits(n) ==
    LET d == n % 16
        c == IF d < 10 THEN 48 + d ELSE 87 + d
    IN IF n < 16 THEN <<c>> ELSE Append(HexDigits(n \div 16), c)

\* hex(n): '0x' followed by the digits.
PyHex(n) == <<48, 120>> \o HexDigits(n)

\* str.upper() / bytes.upper()
Upper(s) == [i \in 1..Len(s) |-> IF s[i] \in 97..122 THEN s[i] - 32 ELSE s[i]]

\* zfill(width)
RECURSIVE ZFill(_, _)
ZFill(s, w) == IF Len(s) >= w THEN s ELSE ZFill(<<48>> \o s, w)

\* str.format('0x{:02x}', n)
Format0x02x(n) == <<48, 120>> \o ZFill(HexDigits(n), 2)

\* Value of one hexadecimal digit character, -1 when it is none.
HexVal(c) == IF c \in 48..57 THEN c - 48
             ELSE IF c \in 97..102 THEN c - 87
             ELSE IF c \in 65..70 THEN c - 55
             ELSE -1

\* int(s, 16) for a string of hexadecimal digits.
RECURSIVE IntHex(_)
IntHex(s) == IF s = <<>> THEN 0
             ELSE 16 * IntHex(SubSeq(s, 1, Len(s) - 1)) + HexVal(s[Len(s)])

\* Bitwise exclusive or of two naturals.
RECURSIVE Xor(_, _)
Xor(a, b) == IF a = 0 /\ b = 0 THEN 0
             ELSE (((a % 2) + (b % 2)) % 2) + 2 * Xor(a \div 2, b \div 2)


\* int(s) for a decimal text: optional surrounding blanks, optional sign, digits.
\* ok = FALSE stands for the ValueError Python raises.
RECURSIVE StripL(_)
StripL(s) == IF s # <<>> /\ s[1] = 32 THEN StripL(Tail(s)) ELSE s
RECURSIVE StripR(_)
StripR(s) == IF s # <<>> /\ s[Len(s)] = 32 THEN StripR(SubSeq(s, 1, Len(s) - 1)) ELSE s
RECURSIVE DecDigits(_)
DecDigits(s) == IF s = <<>> THEN 0
                ELSE 10 * DecDigits(SubSeq(s, 1, Len(s) - 1)) + (s[Len(s)] - 48)
PyInt(s) ==
    LET t == StripR(StripL(s))
        signed == t # <<>> /\ t[1] \in {43, 45}
        d == IF signed THEN Tail(t) ELSE t
        isNum == d # <<>> /\ \A i \in 1..Len(d) : d[i] \in 48..57
    IN [ok |-> isNum,
        v |-> IF ~isNum THEN 0
              ELSE IF signed /\ t[1] = 45 THEN 0 - DecDigits(d) ELSE DecDigits(d)]

(***************************************************************************)
(* Frame codec.                                                            *)
(***************************************************************************)
\* bytes.fromhex(s) for a text of an even number of hexadecimal digits.
RECURSIVE FromHex(_)
FromHex(s) == IF Len(s) < 2 THEN <<>>
              ELSE <<16 * HexVal(s[1]) + HexVal(s[2])>> \o FromHex(SubSeq(s, 3, Len(s)))

RECURSIVE XorFold(_)
XorFold(message) == IF message = <<>> THEN 0
                    ELSE Xor(XorFold(SubSeq(message, 1, Len(message) - 1)),
                             message[Len(message)])

\* _calculateChecksum that does not pad the text to two characters.
_calculateChecksumNoZFill(message, binary) ==
    LET checksum == Upper(HexDigits(XorFold(message)))
    IN IF binary THEN FromHex(checksum) ELSE checksum

\* _calculateChecksum: two upper-case hexadecimal characters, or the one byte
\* they spell when binary.
_calculateChecksum(message, binary) ==
    LET checksum == ZFill(Upper(HexDigits(XorFold(message))), 2)
    IN IF binary THEN FromHex(checksum) ELSE checksum

\* _checkErrors that takes the end flag into the body of a binary frame.
_checkErrorsBodyWithFlag(message, binary) ==
    IF binary
    THEN IF PyTo(message, 1) = <<_errorFlag>>
         THEN IF PySlice(message, 1, 2) = <<>>
              THEN [exc |-> "TypeError", status |-> "none"]
              ELSE IF message[2] \notin DOMAIN Error
              THEN [exc |-> "ValueError", status |-> "none"]
              ELSE [exc |-> "TypeError", status |-> Error[message[2]]]
         ELSE IF PyFrom(message, -1) # _calculateChecksum(PyTo(message, -1), TRUE)
              THEN [exc |-> "none", status |-> "RX_CHKSUM"]
              ELSE [exc |-> "none", status |-> "NO_ERROR"]
    ELSE IF PyTo(message, 2) = Lit(<<"E", "R">>)
         THEN LET code == PyInt(PySlice(message, 2, 4))
              IN IF ~code.ok \/ code.v \notin DOMAIN Error
                 THEN [exc |-> "ValueError", status |-> "none"]
                 ELSE [exc |-> "TypeError", status |-> Error[code.v]]
         ELSE IF PySlice(message, -3, -1) # _calculateChecksum(PyTo(message, -3), FALSE)
              THEN [exc |-> "none", status |-> "RX_CHKSUM"]
              ELSE [exc |-> "none", status |-> "NO_ERROR"]

\* _checkErrors: exc names the exception raised, "none" when it returns status.
\* An error frame always raises: logger.error concatenates a str and the enum.
_checkErrors(message, binary) ==
    IF binary
    THEN IF PyTo(message, 1) = <<_errorFlag>>
         THEN IF PySlice(message, 1, 2) = <<>>
              THEN [exc |-> "TypeError", status |-> "none"]
              ELSE IF message[2] \notin DOMAIN Error
              THEN [exc |-> "ValueError", status |-> "none"]
              ELSE [exc |-> "TypeError", status |-> Error[message[2]]]
         ELSE IF PyFrom(message, -1) # _calculateChecksum(PyTo(message, -2), TRUE)
              THEN [exc |-> "none", status |-> "RX_CHKSUM"]
              ELSE [exc |-> "none", status |-> "NO_ERROR"]
    ELSE IF PyTo(message, 2) = Lit(<<"E", "R">>)
         THEN LET code == PyInt(PySlice(message, 2, 4))
              IN IF ~code.ok \/ code.v \notin DOMAIN Error
                 THEN [exc |-> "ValueError", status |-> "none"]
                 ELSE [exc |-> "TypeError", status |-> Error[code.v]]
         ELSE IF PySlice(message, -3, -1) # _calculateChecksum(PyTo(message, -3), FALSE)
              THEN [exc |-> "none", status |-> "RX_CHKSUM"]
              ELSE [exc |-> "none", status |-> "NO_ERROR"]

(***************************************************************************)
(* Transport (serial port) primitives.                                     *)
(***************************************************************************)
\* Position of the first occurrence of byte t in buf, 0 when absent.
RECURSIVE FirstIndex(_, _, _)
FirstIndex(buf, t, i) == IF i > Len(buf) THEN 0
                         ELSE IF buf[i] = t THEN i
                         ELSE FirstIndex(buf, t, i + 1)

\* read_until(t): the bytes through the first t; everything waiting when the
\* terminator does not come before the timeout.
ReadUntil(buf, t) ==
    LET k == FirstIndex(buf, t, 1)
    IN IF k = 0 THEN [data |-> buf, rest |-> <<>>]
       ELSE [data |-> SubSeq(buf, 1, k), rest |-> SubSeq(buf, k + 1, Len(buf))]

\* Bytes of the device's answer left on the line when read_until returned data
\* from the waiting bytes followed by the answer.
AnswerLeft(waiting, reply, data) ==
    IF Len(data) >= Len(waiting) THEN Len(waiting) + Len(reply) - Len(data)
    ELSE Len(reply)

\* read(n)
ReadN(buf, n) == [data |-> SubSeq(buf, 1, Min(n, Len(buf))),
                  rest |-> SubSeq(buf, Min(n, Len(buf)) + 1, Len(buf))]


(***************************************************************************)
(* State.                                                                  *)
(***************************************************************************)
VARIABLES
    openChannels,   \* category -> list of entries (channel id, or configuration list)
    channelData,    \* category -> dict channel id -> list of samples
    category,       \* category of the message being decoded, "" when none
    phase,          \* phase label of the curve data
    channelIndex,   \* cycle position in the category's open channels
    value,          \* partial value: text of the first byte, or an int
    state,          \* StreamStates member
    message,        \* hexadecimal text of the bytes of the message so far
    inWaiting,      \* transport: bytes received and not yet read
    written,        \* transport: the last frame written
    streaming,      \* device: it transmits the stream (RADC received, no ESC since)
    script,         \* device: the stream it transmits when scripted
    sent,           \* device: bytes it has put on the line for readDataStream
    raised,         \* uncaught exception, "none" when the process runs
    lastOp,         \* operation called last
    ret,            \* what it returned
    nRead,          \* bytes readDataStream consumed in its last call
    _extendedModeActive,  \* the CIE was switched to EXTENDED mode
    timeout,        \* transport: the read timeout of the port, in seconds
    arg,            \* codec call: the message argument
    argBinary,      \* codec call: the binary argument
    result,         \* codec call: function called, exception raised, value returned
    _activeProtocolVersion,  \* the version setProtocol stored, 0 after __init__
    payload,        \* the bytes the last call returned, empty when it returned none
    readTimeout     \* transport: the timeout in force when a response was last awaited

decoderVars == <<category, phase, channelIndex, value, state, message>>
registryVars == <<openChannels, channelData>>
portVars == <<inWaiting, written, readTimeout>>
deviceVars == <<streaming, script, sent>>
callVars == <<raised, lastOp, ret, nRead, payload>>
sessionVars == <<_extendedModeActive, timeout, _activeProtocolVersion>>
codecVars == <<arg, argBinary, result>>
vars == <<openChannels, channelData, category, phase, channelIndex, value, state,
          message, inWaiting, written, streaming, script, sent, raised, lastOp, ret, nRead,
          _extendedModeActive, timeout, arg, argBinary, result,
          _activeProtocolVersion, payload, readTimeout>>

\* The read timeout the callers open the port with.
PortTimeout == 1

\* No codec call made.
NoResult == [op |-> "none", exc |-> "none", val |-> <<>>]

\* An entry of openChannels: the int given to defineAcquiredData, or the list
\* readChannelConfig builds from the response (cfg = gain, offset, unit, ...).
IntEntry(ch) == [kind |-> "int", ch |-> ch, cfg |-> <<>>]
ListEntry(ch, cfg) == [kind |-> "list", ch |-> ch, cfg |-> cfg]

IntValue(n) == [kind |-> "int", num |-> n, str |-> <<>>]
StrValue(t) == [kind |-> "str", num |-> 0, str |-> t]
BytesValue(t) == [kind |-> "bytes", num |-> 0, str |-> t]

\* The fields __init__ sets.
NewOpenChannels == [c \in Categories |-> <<>>]
NewChannelData == [c \in Categories |-> <<>>]
NewDecoder == [category |-> "", phase |-> "", channelIndex |-> 0,
               value |-> IntValue(0), state |-> "PHASE_FLAG", message |-> <<>>]

\* The decoder fields and the sample lists as one object, as readDataStream uses them.
Self == [category |-> category, phase |-> phase, channelIndex |-> channelIndex,
         value |-> value, state |-> state, message |-> message,
         channelData |-> channelData, raised |-> raised]

(***************************************************************************)
(* Stream decoder: the body of the while loop of readDataStream for one    *)
(* byte b, on object o, reading the open channel table oc.                 *)
(***************************************************************************)
\* channel = self.openChannels[self.category][self.channelIndex][0], then the
\* lookup self.channelData[self.category][channel].
ChannelLookup(oc, o) ==
    IF o.category \notin DOMAIN oc
    THEN [exc |-> "KeyError", ch |-> 0]
    ELSE IF o.channelIndex >= Len(oc[o.category])
    THEN [exc |-> "IndexError", ch |-> 0]
    ELSE IF oc[o.category][o.channelIndex + 1].kind = "int"
    THEN [exc |-> "TypeError", ch |-> 0]
    ELSE IF oc[o.category][o.channelIndex + 1].ch \notin DOMAIN o.channelData[o.category]
    THEN [exc |-> "KeyError", ch |-> 0]
    ELSE [exc |-> "none", ch |-> oc[o.category][o.channelIndex + 1].ch]

\* SecondByte that leaves the cycle position where it is.
SecondByteNoAdvance(oc, o, tb, lenCat, next) ==
    IF o.value.kind # "str"
    THEN [o EXCEPT !.raised = "TypeError"]
    ELSE LET v == IntHex(o.value.str \o PyFrom(tb, 2))
             o1 == [o EXCEPT !.value = IntValue(v)]
             lk == ChannelLookup(oc, o1)
         IN IF lk.exc # "none"
            THEN [o1 EXCEPT !.raised = lk.exc]
            ELSE [o1 EXCEPT !.channelData[o.category][lk.ch] = Append(@, v),
                            !.value = IntValue(0),
                            !.state = next]

\* SecondByte that puts the new value in front of the samples.
SecondBytePrepends(oc, o, tb, lenCat, next) ==
    IF o.value.kind # "str"
    THEN [o EXCEPT !.raised = "TypeError"]
    ELSE LET v == IntHex(o.value.str \o PyFrom(tb, 2))
             o1 == [o EXCEPT !.value = IntValue(v)]
             lk == ChannelLookup(oc, o1)
         IN IF lk.exc # "none"
            THEN [o1 EXCEPT !.raised = lk.exc]
            ELSE LET o2 == [o1 EXCEPT !.channelData[o.category][lk.ch] = <<v>> \o @]
                 IN IF Len(oc[lenCat]) = 0
                    THEN [o2 EXCEPT !.raised = "ZeroDivisionError"]
                    ELSE [o2 EXCEPT !.channelIndex = (o.channelIndex + 1) % Len(oc[lenCat]),
                                    !.value = IntValue(0),
                                    !.state = next]

\* The second byte of a two-byte value: complete it, append it to the channel at
\* the cycle position, advance modulo the open channels of lenCat, go to next.
SecondByte(oc, o, tb, lenCat, next) ==
    IF o.value.kind # "str"
    THEN [o EXCEPT !.raised = "TypeError"]
    ELSE LET v == IntHex(o.value.str \o PyFrom(tb, 2))
             o1 == [o EXCEPT !.value = IntValue(v)]
             lk == ChannelLookup(oc, o1)
         IN IF lk.exc # "none"
            THEN [o1 EXCEPT !.raised = lk.exc]
            ELSE LET o2 == [o1 EXCEPT !.channelData[o.category][lk.ch] = Append(@, v)]
                 IN IF Len(oc[lenCat]) = 0
                    THEN [o2 EXCEPT !.raised = "ZeroDivisionError"]
                    ELSE [o2 EXCEPT !.channelIndex = (o.channelIndex + 1) % Len(oc[lenCat]),
                                    !.value = IntValue(0),
                                    !.state = next]

\* DiffValue without the reinterpretation of bytes from 0x82 as negative.
DiffValueUnsigned(oc, o, tb) ==
    LET lk == ChannelLookup(oc, o)
    IN IF lk.exc # "none"
       THEN [o EXCEPT !.raised = lk.exc]
       ELSE IF o.channelData[o.category][lk.ch] = <<>>
       THEN [o EXCEPT !.raised = "IndexError"]
       ELSE LET samples == o.channelData[o.category][lk.ch]
                lastValue == samples[Len(samples)]
                d == IntHex(PyFrom(tb, 2))
                o2 == [o EXCEPT !.channelData[o.category][lk.ch] = Append(@, lastValue + d)]
            IN [o2 EXCEPT !.channelIndex = (o.channelIndex + 1) % Len(oc["C"]),
                          !.value = IntValue(0)]

\* DiffValue whose threshold test is strict (> 0x82).
DiffValueStrictThreshold(oc, o, tb) ==
    LET lk == ChannelLookup(oc, o)
    IN IF lk.exc # "none"
       THEN [o EXCEPT !.raised = lk.exc]
       ELSE IF o.channelData[o.category][lk.ch] = <<>>
       THEN [o EXCEPT !.raised = "IndexError"]
       ELSE LET samples == o.channelData[o.category][lk.ch]
                lastValue == samples[Len(samples)]
                raw == IntHex(PyFrom(tb, 2))
                d == IF raw > 130 THEN raw - 256 ELSE raw
                o1 == [o EXCEPT !.value = IntValue(d)]
                o2 == [o1 EXCEPT !.channelData[o.category][lk.ch] = Append(@, lastValue + d)]
            IN IF Len(oc["C"]) = 0
               THEN [o2 EXCEPT !.raised = "ZeroDivisionError"]
               ELSE [o2 EXCEPT !.channelIndex = (o.channelIndex + 1) % Len(oc["C"]),
                               !.value = IntValue(0)]

\* A differential value in DIFF_VAL_BYTE.
DiffValue(oc, o, tb) ==
    LET lk == ChannelLookup(oc, o)
    IN IF lk.exc # "none"
       THEN [o EXCEPT !.raised = lk.exc]
       ELSE IF o.channelData[o.category][lk.ch] = <<>>
       THEN [o EXCEPT !.raised = "IndexError"]
       ELSE LET samples == o.channelData[o.category][lk.ch]
                lastValue == samples[Len(samples)]
                raw == IntHex(PyFrom(tb, 2))
                d == IF raw >= 130 THEN raw - 256 ELSE raw
                o1 == [o EXCEPT !.value = IntValue(d)]
                o2 == [o1 EXCEPT !.channelData[o.category][lk.ch] = Append(@, lastValue + d)]
            IN IF Len(oc["C"]) = 0
               THEN [o2 EXCEPT !.raised = "ZeroDivisionError"]
               ELSE [o2 EXCEPT !.channelIndex = (o.channelIndex + 1) % Len(oc["C"]),
                               !.value = IntValue(0)]

\* PhaseFlagByte that takes the value flag for a phase flag.
PhaseFlagByteOneFlag(o, tb) ==
    IF tb = PyHex(_phaseFlag) \/ tb = PyHex(_valueFlag)
    THEN [o EXCEPT !.category = "C", !.state = "PHASE_DATA"]
    ELSE IF tb = Lit(<<"0", "x", "4", "2">>)
    THEN [o EXCEPT !.category = "B", !.state = "BREATH_FIRST_BYTE"]
    ELSE IF tb = Lit(<<"0", "x", "5", "3">>)
    THEN [o EXCEPT !.category = "S", !.state = "SETTING_FIRST_BYTE"]
    ELSE [o EXCEPT !.state = "ERROR"]

\* PHASE_FLAG: dispatch on the tag byte.
PhaseFlagByte(o, tb) ==
    IF tb = PyHex(_phaseFlag)
    THEN [o EXCEPT !.category = "C", !.state = "PHASE_DATA"]
    ELSE IF tb = PyHex(_valueFlag)
    THEN [o EXCEPT !.category = "C", !.state = "CURVE_FIRST_BYTE"]
    ELSE IF tb = Lit(<<"0", "x", "4", "2">>)
    THEN [o EXCEPT !.category = "B", !.state = "BREATH_FIRST_BYTE"]
    ELSE IF tb = Lit(<<"0", "x", "5", "3">>)
    THEN [o EXCEPT !.category = "S", !.state = "SETTING_FIRST_BYTE"]
    ELSE [o EXCEPT !.state = "ERROR"]

\* PHASE_DATA: the phase label; the ERROR of the else branch is overwritten by
\* the unconditional assignment that follows the if statement.
PhaseDataByte(o, tb) ==
    [o EXCEPT !.phase = IF tb = Lit(<<"0", "x", "1", "0">>) THEN "Inspiration"
                        ELSE IF tb = Lit(<<"0", "x", "2", "0">>) THEN "Pause"
                        ELSE IF tb = Lit(<<"0", "x", "3", "0">>) THEN "Expiration"
                        ELSE @,
              !.state = "DIFF_VAL_BYTE"]

\* DIFF_VAL_BYTE: a flag, or a differential value.
DiffValByte(oc, o, tb) ==
    IF tb = PyHex(_valueFlag)
    THEN [o EXCEPT !.state = "CURVE_FIRST_BYTE"]
    ELSE IF tb = PyHex(_endFlag)
    THEN [o EXCEPT !.state = "CHECK_SUM"]
    ELSE IF tb = PyHex(_phaseFlag)
    THEN [o EXCEPT !.state = "PHASE_DATA"]
    ELSE DiffValue(oc, o, tb)

\* BREATH_FIRST_BYTE and SETTING_FIRST_BYTE: the end flag, or the first byte of
\* a value, whose second byte is read in state next.
FirstByteOrEnd(o, tb, next) ==
    IF tb = PyHex(_endFlag)
    THEN [o EXCEPT !.state = "CHECK_SUM"]
    ELSE [o EXCEPT !.value = StrValue(PyFrom(tb, 2)), !.state = next]

\* CheckSumByte that leaves the cycle position to the next message.
CheckSumByteKeepsIndex(o) ==
    [o EXCEPT !.category = "", !.message = <<>>, !.state = "PHASE_FLAG"]

\* CHECK_SUM: the byte after the end flag ends the message.
CheckSumByte(o) ==
    [o EXCEPT !.category = "", !.channelIndex = 0, !.message = <<>>,
              !.state = "PHASE_FLAG"]

\* The if/elif chain over self.state (lines 398-517), before the ERROR check.
Branch(oc, o, tb) ==
    CASE o.state = "PHASE_FLAG" -> PhaseFlagByte(o, tb)
      [] o.state = "PHASE_DATA" -> PhaseDataByte(o, tb)
      [] o.state = "CURVE_VAL_FLAG" ->
           IF tb = PyHex(_valueFlag)
           THEN [o EXCEPT !.state = "CURVE_FIRST_BYTE"]
           ELSE [o EXCEPT !.state = "ERROR"]
      [] o.state = "CURVE_FIRST_BYTE" ->
           [o EXCEPT !.value = StrValue(PyFrom(tb, 2)), !.state = "CURVE_SECND_BYTE"]
      [] o.state = "CURVE_SECND_BYTE" ->
           SecondByte(oc, o, tb, "C", "DIFF_VAL_BYTE")
      [] o.state = "DIFF_VAL_BYTE" -> DiffValByte(oc, o, tb)
      [] o.state = "BREATH_FIRST_BYTE" -> FirstByteOrEnd(o, tb, "BREATH_SECND_BYTE")
      [] o.state = "BREATH_SECND_BYTE" ->
           SecondByte(oc, o, tb, "B", "BREATH_FIRST_BYTE")
      [] o.state = "SETTING_FIRST_BYTE" -> FirstByteOrEnd(o, tb, "SETTING_SECND_BYTE")
      [] o.state = "SETTING_SECND_BYTE" ->
           SecondByte(oc, o, tb, "S", "BREATH_FIRST_BYTE")
      [] o.state = "CHECK_SUM" -> CheckSumByte(o)
      [] OTHER -> [o EXCEPT !.state = "ERROR"]

\* ErrorReset put off to the next byte: nothing happens in this iteration.
ErrorResetDeferred(o) == o

\* The reset of lines 519-524, in the same iteration.
ErrorReset(o) ==
    IF o.raised = "none" /\ o.state = "ERROR"
    THEN [o EXCEPT !.category = "", !.channelIndex = 0, !.state = "PHASE_FLAG",
                   !.message = <<>>]
    ELSE o

\* One iteration of the loop: format the byte, accumulate it, branch, reset on ERROR.
StepByte(oc, o, b) ==
    LET thisByte == Format0x02x(b)
        o1 == [o EXCEPT !.message = @ \o PyFrom(thisByte, 2)]
    IN ErrorReset(Branch(oc, o1, thisByte))

\* while self._port.in_waiting: the loop over the waiting bytes; an exception
\* leaves the bytes after the failing one unread.
RECURSIVE ReadLoop(_, _, _, _)
ReadLoop(oc, o, buf, n) ==
    IF buf = <<>> \/ o.raised # "none"
    THEN [o |-> o, rest |-> buf, n |-> n]
    ELSE ReadLoop(oc, StepByte(oc, o, Head(buf)), Tail(buf), n + 1)


(***************************************************************************)
(* Text helpers of the command engine.                                     *)
(***************************************************************************)
\* b'%i' % n for n >= 0
RECURSIVE DecStr(_)
DecStr(n) == IF n < 10 THEN <<48 + n>> ELSE Append(DecStr(n \div 10), 48 + (n % 10))

\* str.split(','): the fields between the separators, at least one.
RECURSIVE Split(_, _)
Split(s, sep) ==
    LET k == FirstIndex(s, sep, 1)
    IN IF k = 0 THEN <<s>>
       ELSE <<SubSeq(s, 1, k - 1)>> \o Split(SubSeq(s, k + 1, Len(s)), sep)

\* '--' in s
HasDashes(s) == \E i \in 1..(Len(s) - 1) : s[i] = 45 /\ s[i + 1] = 45

\* s.lstrip('0')
RECURSIVE LStripZero(_)
LStripZero(s) == IF s # <<>> /\ s[1] = 48 THEN LStripZero(Tail(s)) ELSE s

\* The unit table: codes 1..23.
units == [u \in 1..23 |->
    CASE u = 1 -> "ml" [] u = 2 -> "ml/s" [] u = 3 -> "ml/min" [] u = 4 -> "cmH2O"
      [] u = 5 -> "ml/cmH2O" [] u = 6 -> "breaths/min" [] u = 7 -> "%" [] u = 8 -> "l/min"
      [] u = 9 -> "cmH2O/l/s" [] u = 10 -> "mmHg" [] u = 11 -> "kPa" [] u = 12 -> "mbar"
      [] u = 13 -> "mV" [] u = 14 -> "s" [] u = 15 -> "l/s" [] u = 16 -> "cmH2O/l"
      [] u = 17 -> "l" [] u = 18 -> "Joule/l" [] u = 19 -> "uV" [] u = 20 -> "no unit"
      [] u = 21 -> "cmH2O/uV" [] u = 22 -> "breaths/min/l" [] u = 23 -> "min"]

\* A gain or offset: mant * 10 ** exp, or the string 'None'.
NoneNumber == [unset |-> TRUE, mant |-> 0, exp |-> 0]
Number(m, e) == [unset |-> FALSE, mant |-> m, exp |-> e]

\* int(field[:5]) * 10 ** int(field[-4:]), 'None' for a placeholder field.
DecodeNumber(field) ==
    IF HasDashes(field)
    THEN [exc |-> "none", v |-> NoneNumber]
    ELSE LET m == PyInt(PyTo(field, 5))
             e == PyInt(PyFrom(field, -4))
         IN IF ~m.ok \/ ~e.ok
            THEN [exc |-> "ValueError", v |-> NoneNumber]
            ELSE [exc |-> "none", v |-> Number(m.v, e.v)]

\* self.units[int(field.lstrip('0'))], 'None' for a placeholder field.
DecodeUnit(field) ==
    IF HasDashes(field)
    THEN [exc |-> "none", v |-> "None"]
    ELSE LET u == PyInt(LStripZero(field))
         IN IF ~u.ok THEN [exc |-> "ValueError", v |-> "None"]
            ELSE IF u.v \notin DOMAIN units THEN [exc |-> "KeyError", v |-> "None"]
            ELSE [exc |-> "none", v |-> units[u.v]]

\* Lines 568-586: the configuration list built from the response.
\* str(bytes, 'utf-8') fails on a byte that is no ASCII character (the frames
\* and stream bytes used here contain no valid multi-byte sequence).
ParseConfiguration(response) ==
    LET text == PySlice(response, 4, -9)
        configuration == Split(text, 44)
        ch == PyInt(configuration[1])
    IN IF \E i \in 1..Len(text) : text[i] >= 128
       THEN [exc |-> "UnicodeDecodeError", entry |-> IntEntry(0)]
       ELSE IF ~ch.ok
       THEN [exc |-> "ValueError", entry |-> IntEntry(0)]
       ELSE IF Len(configuration) < 2
       THEN [exc |-> "IndexError", entry |-> IntEntry(0)]
       ELSE LET gain == DecodeNumber(configuration[2])
            IN IF gain.exc # "none"
               THEN [exc |-> gain.exc, entry |-> IntEntry(0)]
               ELSE IF Len(configuration) < 3
               THEN [exc |-> "IndexError", entry |-> IntEntry(0)]
               ELSE LET offset == DecodeNumber(configuration[3])
                    IN IF offset.exc # "none"
                       THEN [exc |-> offset.exc, entry |-> IntEntry(0)]
                       ELSE IF Len(configuration) < 4
                       THEN [exc |-> "IndexError", entry |-> IntEntry(0)]
                       ELSE LET unit == DecodeUnit(configuration[4])
                            IN IF unit.exc # "none"
                               THEN [exc |-> unit.exc, entry |-> IntEntry(0)]
                               ELSE [exc |-> "none",
                                     entry |-> ListEntry(ch.v,
                                        <<gain.v, offset.v, unit.v,
                                          SubSeq(configuration, 5, Len(configuration))>>)]


(***************************************************************************)
(* Inputs: what the callers pass and what the device answers.              *)
(***************************************************************************)
\* Bytes the device streams: the four tags, the end flag, the phase tags'
\* representative 0x10, and data bytes on both sides of the sign threshold.
StreamBytes == {16, 66, 83, 127, 128, 129, 255}

\* Bytes the device streams while commands are issued as well.
CommandStreamBytes == {16, 66, 127}

DefCategories == {"B", "X"}
ChannelLists == {<<>>, <<201>>}
ChannelIds == {201, 202}

\* A text frame as the device builds it: body, checksum of the body, terminator.
TextFrame(body, term) == body \o _calculateChecksum(body, FALSE) \o <<term>>

\* Answers to SDAD: accepted, a corrupted checksum, an error frame, no answer.
SDADReplies == {TextFrame(<<>>, _endOfTransmission),
                Lit(<<"0", "1">>) \o <<_endOfTransmission>>,
                TextFrame(Lit(<<"E", "R", "1", "2">>), _endOfTransmission),
                <<>>}

\* Answers to RCCO for channel ch: four leading characters, the comma separated
\* fields, six trailing characters, the checksum and the end flag.
ConfigBody(ch, gain, offset, unit) ==
    Lit(<<"0", "0", "5", "0">>) \o DecStr(ch) \o <<44>> \o gain \o <<44>> \o offset
      \o <<44>> \o unit \o Lit(<<",", "B", "T", " ", " ", " ">>)
RCCOReplies(ch) ==
    {TextFrame(ConfigBody(ch, Lit(<<"+", "1", "0", "0", "0", "-", "0", "0", "4">>),
                          Lit(<<"+", "0", "0", "0", "0", "+", "0", "0", "0">>),
                          Lit(<<"0", "4">>)), _endFlag),
     ConfigBody(ch, Lit(<<"-", "-">>), Lit(<<"-", "-">>), Lit(<<"-", "-">>))
        \o Lit(<<"0", "0">>) \o <<_endFlag>>,
     <<>>}

\* Answers to the escape that ends the stream: an acknowledgement whose last
\* four bytes check, followed by the checksum byte of the binary framing; the
\* same with a corrupted checksum; no answer.
ESCReplies == {TextFrame(<<_escape>>, _endFlag) \o <<100>>,
               <<_escape>> \o Lit(<<"0", "0">>) \o <<_endFlag, 100>>,
               <<>>}

(***************************************************************************)
(* Initial state: the object after __init__, nothing on the line.          *)
(***************************************************************************)
Init ==
    /\ openChannels = NewOpenChannels
    /\ channelData = NewChannelData
    /\ category = NewDecoder.category
    /\ phase = NewDecoder.phase
    /\ channelIndex = NewDecoder.channelIndex
    /\ value = NewDecoder.value
    /\ state = NewDecoder.state
    /\ message = NewDecoder.message
    /\ inWaiting = <<>>
    /\ written = <<>>
    /\ streaming = FALSE
    /\ script = <<>>
    /\ sent = 0
    /\ raised = "none"
    /\ _extendedModeActive = FALSE
    /\ timeout = PortTimeout
    /\ readTimeout = PortTimeout
    /\ _activeProtocolVersion = IntValue(0)
    /\ payload = <<>>
    /\ arg = <<>>
    /\ argBinary = FALSE
    /\ result = NoResult
    /\ lastOp = "__init__"
    /\ ret = "None"
    /\ nRead = 0

(***************************************************************************)
(* The device puts one more stream byte on the line.                       *)
(***************************************************************************)
DeviceSend(b) ==
    /\ raised = "none"
    /\ UNCHANGED <<sessionVars, codecVars>>
    /\ streaming
    /\ script = <<>>
    /\ sent < MaxBytes
    /\ Len(inWaiting) < MaxWaiting
    /\ inWaiting' = Append(inWaiting, b)
    /\ sent' = sent + 1
    /\ UNCHANGED <<decoderVars, registryVars, written, readTimeout, streaming, script,
                   callVars>>

\* readDataStream that starts every call with an empty message accumulator.
ReadDataStreamClearsMessage ==
    /\ raised = "none"
    /\ UNCHANGED <<sessionVars, codecVars>>
    /\ LET r == ReadLoop(openChannels, [Self EXCEPT !.message = <<>>], inWaiting, 0)
       IN /\ category' = r.o.category
          /\ phase' = r.o.phase
          /\ channelIndex' = r.o.channelIndex
          /\ value' = r.o.value
          /\ state' = r.o.state
          /\ message' = r.o.message
          /\ channelData' = r.o.channelData
          /\ raised' = r.o.raised
          /\ inWaiting' = r.rest
          /\ nRead' = r.n
          /\ payload' = <<>>
          /\ ret' = IF r.o.raised = "none" THEN "None" ELSE "raise"
    /\ lastOp' = "readDataStream"
    /\ UNCHANGED <<openChannels, written, readTimeout, deviceVars>>

\* readDataStream that keeps the partial value in a local of the call, set to 0
\* on entry, so that the first byte of a value is lost when the call returns
\* before the second.
ReadDataStreamLocalValue ==
    /\ raised = "none"
    /\ UNCHANGED <<sessionVars, codecVars>>
    /\ LET r == ReadLoop(openChannels, [Self EXCEPT !.value = IntValue(0)],
                         inWaiting, 0)
       IN /\ category' = r.o.category
          /\ phase' = r.o.phase
          /\ channelIndex' = r.o.channelIndex
          /\ value' = r.o.value
          /\ state' = r.o.state
          /\ message' = r.o.message
          /\ channelData' = r.o.channelData
          /\ raised' = r.o.raised
          /\ inWaiting' = r.rest
          /\ nRead' = r.n
          /\ payload' = <<>>
          /\ ret' = IF r.o.raised = "none" THEN "None" ELSE "raise"
    /\ lastOp' = "readDataStream"
    /\ UNCHANGED <<openChannels, written, readTimeout, deviceVars>>

(***************************************************************************)
(* readDataStream                                                          *)
(***************************************************************************)
ReadDataStream ==
    /\ raised = "none"
    /\ UNCHANGED <<sessionVars, codecVars>>
    /\ LET r == ReadLoop(openChannels, Self, inWaiting, 0)
       IN /\ category' = r.o.category
          /\ phase' = r.o.phase
          /\ channelIndex' = r.o.channelIndex
          /\ value' = r.o.value
          /\ state' = r.o.state
          /\ message' = r.o.message
          /\ channelData' = r.o.channelData
          /\ raised' = r.o.raised
          /\ inWaiting' = r.rest
          /\ nRead' = r.n
          /\ payload' = <<>>
          /\ ret' = IF r.o.raised = "none" THEN "None" ELSE "raise"
    /\ lastOp' = "readDataStream"
    /\ UNCHANGED <<openChannels, written, readTimeout, deviceVars>>


(***************************************************************************)
(* Command engine.                                                         *)
(***************************************************************************)
RECURSIVE ChannelsText(_)
ChannelsText(channels) == IF channels = <<>> THEN <<>>
                          ELSE DecStr(Head(channels)) \o ChannelsText(Tail(channels))

\* {channel: [] for channel in channels}
EmptyData(channels) == [ch \in {channels[i] : i \in 1..Len(channels)} |-> <<>>]

\* defineAcquiredData that keeps the samples of the channels that stay open.
DefineAcquiredDataKeepsSamples(cat, channels, reply) ==
    /\ raised = "none"
    /\ UNCHANGED <<sessionVars, codecVars>>
    /\ lastOp' = "defineAcquiredData"
    /\ nRead' = 0
    /\ payload' = <<>>
    /\ IF cat \notin Categories
       THEN /\ ret' = "INVALID"
            /\ UNCHANGED <<registryVars, decoderVars, portVars, deviceVars, raised>>
       ELSE LET request == Lit(<<"S", "D", "A", "D">>) \o Upper(Lit(<<cat>>))
                             \o ChannelsText(channels)
                r == ReadUntil(inWaiting \o reply, _endOfTransmission)
                chk == _checkErrors(r.data, FALSE)
                left == AnswerLeft(inWaiting, reply, r.data)
            IN /\ Len(r.rest) <= MaxWaiting
               /\ sent + left <= MaxBytes
               /\ sent' = sent + left
               /\ written' = request \o _calculateChecksum(request, FALSE)
                                \o <<_endOfTransmission>>
               /\ inWaiting' = r.rest
               /\ readTimeout' = timeout
               /\ raised' = chk.exc
               /\ ret' = IF chk.exc = "none" THEN chk.status ELSE "raise"
               /\ IF chk.exc = "none" /\ chk.status = "NO_ERROR"
                  THEN IF Len(channels) > 0
                       THEN /\ openChannels' = [openChannels EXCEPT ![cat] =
                                   [i \in 1..Len(channels) |-> IntEntry(channels[i])]]
                            /\ channelData' = [channelData EXCEPT ![cat] =
                                   [ch \in {channels[i] : i \in 1..Len(channels)} |->
                                       IF ch \in DOMAIN channelData[cat]
                                       THEN channelData[cat][ch] ELSE <<>>]]
                       ELSE /\ openChannels' = [openChannels EXCEPT ![cat] = <<>>]
                            /\ UNCHANGED channelData
                  ELSE UNCHANGED registryVars
               /\ UNCHANGED <<decoderVars, streaming, script>>

\* defineAcquiredData(cat, channels); reply is what the device answers.
DefineAcquiredData(cat, channels, reply) ==
    /\ raised = "none"
    /\ UNCHANGED <<sessionVars, codecVars>>
    /\ lastOp' = "defineAcquiredData"
    /\ nRead' = 0
    /\ payload' = <<>>
    /\ IF cat \notin Categories
       THEN /\ ret' = "INVALID"
            /\ UNCHANGED <<registryVars, decoderVars, portVars, deviceVars, raised>>
       ELSE LET request == Lit(<<"S", "D", "A", "D">>) \o Upper(Lit(<<cat>>))
                             \o ChannelsText(channels)
                r == ReadUntil(inWaiting \o reply, _endOfTransmission)
                chk == _checkErrors(r.data, FALSE)
                left == AnswerLeft(inWaiting, reply, r.data)
            IN /\ Len(r.rest) <= MaxWaiting
               /\ sent + left <= MaxBytes
               /\ sent' = sent + left
               /\ written' = request \o _calculateChecksum(request, FALSE)
                                \o <<_endOfTransmission>>
               /\ inWaiting' = r.rest
               /\ readTimeout' = timeout
               /\ raised' = chk.exc
               /\ ret' = IF chk.exc = "none" THEN chk.status ELSE "raise"
               /\ IF chk.exc = "none" /\ chk.status = "NO_ERROR"
                  THEN IF Len(channels) > 0
                       THEN /\ openChannels' = [openChannels EXCEPT ![cat] =
                                   [i \in 1..Len(channels) |-> IntEntry(channels[i])]]
                            /\ channelData' = [channelData EXCEPT ![cat] =
                                   EmptyData(channels)]
                       ELSE /\ openChannels' = [openChannels EXCEPT ![cat] = <<>>]
                            /\ UNCHANGED channelData
                  ELSE UNCHANGED registryVars
               /\ UNCHANGED <<decoderVars, streaming, script>>

StartRequest == Lit(<<"R", "A", "D", "C">>)
                  \o _calculateChecksum(Lit(<<"R", "A", "D", "C">>), FALSE)
                  \o <<_endOfTransmission>>

\* startDataStream: writes the request and returns; the device starts streaming.
StartDataStream ==
    /\ raised = "none"
    /\ UNCHANGED <<sessionVars, codecVars>>
    /\ lastOp' = "startDataStream"
    /\ nRead' = 0
    /\ payload' = <<>>
    /\ ret' = "None"
    /\ written' = StartRequest
    /\ streaming' = TRUE
    /\ UNCHANGED <<registryVars, decoderVars, inWaiting, readTimeout, script, sent,
                   raised>>

\* endDataStream; the device stops streaming and answers reply.
EndDataStream(reply) ==
    /\ raised = "none"
    /\ UNCHANGED <<sessionVars, codecVars>>
    /\ lastOp' = "endDataStream"
    /\ nRead' = 0
    /\ payload' = <<>>
    /\ LET r == ReadUntil(inWaiting \o reply, _endFlag)
           chk == _checkErrors(PyFrom(r.data, -4), FALSE)
           left == AnswerLeft(inWaiting, reply, r.data)
       IN /\ Len(r.rest) <= MaxWaiting
          /\ sent + left <= MaxBytes
          /\ sent' = sent + left
          /\ written' = <<_escape, _endOfTransmission>>
          /\ inWaiting' = r.rest
          /\ readTimeout' = timeout
          /\ raised' = chk.exc
          /\ ret' = IF chk.exc = "none" THEN chk.status ELSE "raise"
          /\ state' = IF chk.exc = "none" /\ chk.status = "NO_ERROR"
                      THEN "PHASE_FLAG" ELSE state
    /\ streaming' = FALSE
    /\ UNCHANGED <<registryVars, category, phase, channelIndex, value, message,
                   script>>

\* The scan of lines 545-551: the category of the last entry equal to channel,
\* "" when there is none. A configured entry is a list and equals no int.
RECURSIVE OwningCategory(_, _, _)
OwningCategory(oc, channel, i) ==
    IF i = 0 THEN ""
    ELSE IF \E k \in 1..Len(oc[dataCategories[i]]) :
               oc[dataCategories[i]][k] = IntEntry(channel)
    THEN dataCategories[i]
    ELSE OwningCategory(oc, channel, i - 1)

\* list.index(x): 0-based position of the first element equal to x.
ListIndex(l, x) == (CHOOSE k \in 1..Len(l) : l[k] = x /\ \A j \in 1..(k - 1) : l[j] # x) - 1

\* list.pop(position) followed by list.append(x).
PopAppend(l, position, x) ==
    Append(SubSeq(l, 1, position) \o SubSeq(l, position + 2, Len(l)), x)

\* readChannelConfig that puts the configuration at the end of the list.
ReadChannelConfigAppends(channel, reply) ==
    /\ raised = "none"
    /\ UNCHANGED <<sessionVars, codecVars>>
    /\ lastOp' = "readChannelConfig"
    /\ nRead' = 0
    /\ payload' = <<>>
    /\ LET cat == OwningCategory(openChannels, channel, Len(dataCategories))
       IN IF cat = ""
          THEN /\ ret' = "INVALID"
               /\ UNCHANGED <<registryVars, decoderVars, portVars, deviceVars, raised>>
          ELSE LET position == ListIndex(openChannels[cat], IntEntry(channel))
                   request == Lit(<<"R", "C", "C", "O">>) \o DecStr(channel)
                   r == ReadUntil(inWaiting \o reply, _endFlag)
                   cfg == ParseConfiguration(r.data)
                   chk == _checkErrors(r.data, FALSE)
                   left == AnswerLeft(inWaiting, reply, r.data)
               IN /\ Len(r.rest) <= MaxWaiting
                  /\ sent + left <= MaxBytes
                  /\ sent' = sent + left
                  /\ written' = request \o _calculateChecksum(request, FALSE)
                                   \o <<_endOfTransmission>>
                  /\ inWaiting' = r.rest
                  /\ readTimeout' = timeout
                  /\ IF cfg.exc # "none"
                     THEN /\ raised' = cfg.exc
                          /\ ret' = "raise"
                          /\ UNCHANGED openChannels
                     ELSE /\ openChannels' = [openChannels EXCEPT
                                 ![cat] = PopAppend(openChannels[cat], position, cfg.entry)]
                          /\ raised' = chk.exc
                          /\ ret' = IF chk.exc = "none" THEN chk.status ELSE "raise"
                  /\ UNCHANGED <<channelData, decoderVars, streaming, script>>

\* readChannelConfig(channel); reply is what the device answers.
ReadChannelConfig(channel, reply) ==
    /\ raised = "none"
    /\ UNCHANGED <<sessionVars, codecVars>>
    /\ lastOp' = "readChannelConfig"
    /\ nRead' = 0
    /\ payload' = <<>>
    /\ LET cat == OwningCategory(openChannels, channel, Len(dataCategories))
       IN IF cat = ""
          THEN /\ ret' = "INVALID"
               /\ UNCHANGED <<registryVars, decoderVars, portVars, deviceVars, raised>>
          ELSE LET position == ListIndex(openChannels[cat], IntEntry(channel))
                   request == Lit(<<"R", "C", "C", "O">>) \o DecStr(channel)
                   r == ReadUntil(inWaiting \o reply, _endFlag)
                   cfg == ParseConfiguration(r.data)
                   chk == _checkErrors(r.data, FALSE)
                   left == AnswerLeft(inWaiting, reply, r.data)
               IN /\ Len(r.rest) <= MaxWaiting
                  /\ sent + left <= MaxBytes
                  /\ sent' = sent + left
                  /\ written' = request \o _calculateChecksum(request, FALSE)
                                   \o <<_endOfTransmission>>
                  /\ inWaiting' = r.rest
                  /\ readTimeout' = timeout
                  /\ IF cfg.exc # "none"
                     THEN /\ raised' = cfg.exc
                          /\ ret' = "raise"
                          /\ UNCHANGED openChannels
                     ELSE /\ openChannels' = [openChannels EXCEPT
                                                ![cat][position + 1] = cfg.entry]
                          /\ raised' = chk.exc
                          /\ ret' = IF chk.exc = "none" THEN chk.status ELSE "raise"
                  /\ UNCHANGED <<channelData, decoderVars, streaming, script>>

\* Answers to RCTY: the digit '0' at offset 7, another digit there, a corrupted
\* checksum, an error frame, no answer.
RCTYReplies == {TextFrame(Lit(<<"0", "0", "0", "0", "0", "0", "0", "0">>), _endOfTransmission),
                TextFrame(Lit(<<"0", "0", "0", "0", "0", "0", "0", "1">>), _endOfTransmission),
                Lit(<<"0", "0", "0", "0", "0", "0", "0", "0", "0", "1">>)
                   \o <<_endOfTransmission>>,
                TextFrame(Lit(<<"E", "R", "1", "7">>), _endOfTransmission),
                <<>>}

\* readCIType; reply is what the device answers.
ReadCIType(reply) ==
    /\ raised = "none"
    /\ lastOp' = "readCIType"
    /\ nRead' = 0
    /\ payload' = <<>>
    /\ LET request == Lit(<<"R", "C", "T", "Y">>)
           r == ReadUntil(inWaiting \o reply, _endOfTransmission)
           chk == _checkErrors(r.data, FALSE)
           left == AnswerLeft(inWaiting, reply, r.data)
           ok == chk.exc = "none" /\ chk.status = "NO_ERROR"
           digit0 == PySlice(r.data, 7, 8) = Lit(<<"0">>)
       IN /\ Len(r.rest) <= MaxWaiting
          /\ sent + left <= MaxBytes
          /\ sent' = sent + left
          /\ written' = request \o _calculateChecksum(request, FALSE)
                           \o <<_endOfTransmission>>
          /\ inWaiting' = r.rest
          /\ readTimeout' = timeout
          /\ raised' = chk.exc
          /\ ret' = IF chk.exc # "none" THEN "raise"
                    ELSE IF ok /\ ~digit0 THEN "CIE_ERROR"
                    ELSE chk.status
          /\ _extendedModeActive' = IF ok /\ digit0 THEN TRUE ELSE _extendedModeActive
    /\ UNCHANGED <<registryVars, decoderVars, streaming, script, timeout,
                   _activeProtocolVersion, codecVars>>

\* t in s for byte strings.
Contains(s, t) == \E i \in 0..(Len(s) - Len(t)) : SubSeq(s, i + 1, i + Len(t)) = t

\* The acknowledgement of HELLO.
AckToken == Lit(<<"9", "0", "0", "P", "C", "I">>)

\* Answers to HO: the acknowledgement, the acknowledgement inside a longer
\* answer, an error frame, no answer.
HOReplies == {AckToken \o <<_endOfTransmission>>,
              Lit(<<"0">>) \o AckToken \o Lit(<<"0", "0">>) \o <<_endOfTransmission>>,
              TextFrame(Lit(<<"E", "R", "1", "1">>), _endOfTransmission),
              <<>>}

\* generalCall that clears the flag whatever the response.
GeneralCallAlwaysClears(reply) ==
    /\ raised = "none"
    /\ lastOp' = "generalCall"
    /\ nRead' = 0
    /\ LET request == Lit(<<"H", "O">>)
           r == ReadUntil(inWaiting \o reply, _endOfTransmission)
           left == AnswerLeft(inWaiting, reply, r.data)
       IN /\ Len(r.rest) <= MaxWaiting
          /\ sent + left <= MaxBytes
          /\ sent' = sent + left
          /\ written' = request \o <<_endOfTransmission>>
          /\ inWaiting' = r.rest
          /\ readTimeout' = timeout
          /\ _extendedModeActive' = FALSE
          /\ ret' = "bytes"
          /\ payload' = r.data
    /\ UNCHANGED <<registryVars, decoderVars, streaming, script, timeout,
                   _activeProtocolVersion, raised, codecVars>>

\* generalCall; reply is what the device answers. It returns the response.
GeneralCall(reply) ==
    /\ raised = "none"
    /\ lastOp' = "generalCall"
    /\ nRead' = 0
    /\ LET request == Lit(<<"H", "O">>)
           r == ReadUntil(inWaiting \o reply, _endOfTransmission)
           left == AnswerLeft(inWaiting, reply, r.data)
       IN /\ Len(r.rest) <= MaxWaiting
          /\ sent + left <= MaxBytes
          /\ sent' = sent + left
          /\ written' = request \o <<_endOfTransmission>>
          /\ inWaiting' = r.rest
          /\ readTimeout' = timeout
          /\ _extendedModeActive' = IF Contains(r.data, AckToken) THEN FALSE
                                    ELSE _extendedModeActive
          /\ ret' = "bytes"
          /\ payload' = r.data
    /\ UNCHANGED <<registryVars, decoderVars, streaming, script, timeout,
                   _activeProtocolVersion, raised, codecVars>>

\* Answers to RHVE: a version, a corrupted checksum, an error frame, no answer.
RHVEReplies == {TextFrame(Lit(<<"0", "0", "3">>), _endOfTransmission),
                Lit(<<"0", "0", "3", "0", "0">>) \o <<_endOfTransmission>>,
                TextFrame(Lit(<<"E", "R", "1", "0">>), _endOfTransmission),
                <<>>}

\* getMaxProtocol; reply is what the device answers. It returns response[:-3]
\* or the status.
GetMaxProtocol(reply) ==
    /\ raised = "none"
    /\ lastOp' = "getMaxProtocol"
    /\ nRead' = 0
    /\ LET request == Lit(<<"R", "H", "V", "E">>)
           r == ReadUntil(inWaiting \o reply, _endOfTransmission)
           chk == _checkErrors(r.data, FALSE)
           left == AnswerLeft(inWaiting, reply, r.data)
           ok == chk.exc = "none" /\ chk.status = "NO_ERROR"
       IN /\ Len(r.rest) <= MaxWaiting
          /\ sent + left <= MaxBytes
          /\ sent' = sent + left
          /\ written' = request \o _calculateChecksum(request, FALSE)
                           \o <<_endOfTransmission>>
          /\ inWaiting' = r.rest
          /\ readTimeout' = timeout
          /\ raised' = chk.exc
          /\ ret' = IF chk.exc # "none" THEN "raise"
                    ELSE IF ok THEN "bytes" ELSE chk.status
          /\ payload' = IF ok THEN PyTo(r.data, -3) ELSE <<>>
    /\ UNCHANGED <<registryVars, decoderVars, streaming, script, sessionVars, codecVars>>

\* Version arguments of setProtocol: the bytes getMaxProtocol returned, an int.
Versions == {BytesValue(Lit(<<"0", "0", "3">>)), IntValue(2)}

\* bytes(version): the bytes themselves, or as many zero bytes as the int says.
BytesOf(version) == IF version.kind = "bytes" THEN version.str
                    ELSE [i \in 1..version.num |-> 0]

\* Answers to SPVE: accepted, a corrupted checksum, an error frame, no answer.
SPVEReplies == {TextFrame(<<>>, _endOfTransmission),
                Lit(<<"0", "1">>) \o <<_endOfTransmission>>,
                TextFrame(Lit(<<"E", "R", "1", "2">>), _endOfTransmission),
                <<>>}

\* setProtocol(version); reply is what the device answers.
SetProtocol(version, reply) ==
    /\ raised = "none"
    /\ lastOp' = "setProtocol"
    /\ nRead' = 0
    /\ payload' = <<>>
    /\ LET request == Lit(<<"S", "P", "V", "E">>) \o BytesOf(version)
           r == ReadUntil(inWaiting \o reply, _endOfTransmission)
           chk == _checkErrors(r.data, FALSE)
           left == AnswerLeft(inWaiting, reply, r.data)
           ok == chk.exc = "none" /\ chk.status = "NO_ERROR"
       IN /\ Len(r.rest) <= MaxWaiting
          /\ sent + left <= MaxBytes
          /\ sent' = sent + left
          /\ written' = request \o _calculateChecksum(request, FALSE)
                           \o <<_endOfTransmission>>
          /\ inWaiting' = r.rest
          /\ readTimeout' = timeout
          /\ raised' = chk.exc
          /\ ret' = IF chk.exc = "none" THEN chk.status ELSE "raise"
          /\ _activeProtocolVersion' = IF ok THEN version ELSE _activeProtocolVersion
    /\ UNCHANGED <<registryVars, decoderVars, streaming, script, _extendedModeActive,
                   timeout, codecVars>>

\* str.upper() of a category argument.
UpperName(c) == IF c = "c" THEN "C" ELSE IF c = "b" THEN "B" ELSE IF c = "x" THEN "X" ELSE c

\* Category arguments of readDataOnce, and the answers to RADA: for curves the
\* binary samples, end flag and checksum byte, right or wrong; for the other
\* categories a text frame, right or with a corrupted checksum; no answer.
OnceCategories == {"C", "c", "B", "X", "x"}
RADAReplies(cat) ==
    IF cat = "C"
    THEN {<<0, 100, _endFlag>> \o _calculateChecksum(<<0, 100>>, TRUE),
          <<0, 100, _endFlag, 0>>,
          <<>>}
    ELSE {TextFrame(Lit(<<"1", "2">>), _endOfTransmission),
          Lit(<<"1", "2", "0", "0">>) \o <<_endOfTransmission>>,
          <<>>}

\* readDataOnce that validates the category after the request is written.
ReadDataOnceWritesFirst(cat, reply) ==
    /\ raised = "none"
    /\ lastOp' = "readDataOnce"
    /\ nRead' = 0
    /\ payload' = <<>>
    /\ IF UpperName(cat) \notin Categories
       THEN /\ ret' = "INVALID"
            /\ written' = Lit(<<"R", "A", "D", "A">>)
            /\ UNCHANGED <<registryVars, decoderVars, inWaiting, readTimeout, deviceVars, raised,
                           sessionVars>>
       ELSE LET curve == UpperName(cat) = "C"
                name == IF curve THEN Lit(<<"U", "C">>) ELSE Lit(<<UpperName(cat)>>)
                samples == IF curve THEN Lit(<<"0", "0", "0", "0">>) ELSE <<>>
                trig == IF curve THEN Lit(<<"0">>) ELSE <<>>
                trigend == IF curve THEN Lit(<<"0">>) ELSE <<>>
                request == Lit(<<"R", "A", "D", "A">>) \o name \o samples \o trig \o trigend
                line == inWaiting \o reply
                r1 == ReadUntil(line, IF curve THEN _endFlag ELSE _endOfTransmission)
                r2 == ReadN(r1.rest, 1)
                response == IF curve THEN r1.data \o r2.data ELSE r1.data
                rest == IF curve THEN r2.rest ELSE r1.rest
                chk == _checkErrors(response, FALSE)
                left == AnswerLeft(inWaiting, reply, response)
            IN /\ Len(rest) <= MaxWaiting
               /\ sent + left <= MaxBytes
               /\ sent' = sent + left
               /\ written' = request \o _calculateChecksum(request, FALSE)
                                \o <<_endOfTransmission>>
               /\ inWaiting' = rest
               /\ readTimeout' = IF curve THEN 5 ELSE timeout
               /\ timeout' = IF curve THEN 1 ELSE timeout
               /\ raised' = chk.exc
               /\ ret' = IF chk.exc = "none" THEN chk.status ELSE "raise"
               /\ UNCHANGED <<registryVars, decoderVars, streaming, script,
                              _extendedModeActive,
                              _activeProtocolVersion>>
    /\ UNCHANGED codecVars

\* readDataOnce that leaves the timeout of the curve read in force.
ReadDataOnceKeepsTimeout(cat, reply) ==
    /\ raised = "none"
    /\ lastOp' = "readDataOnce"
    /\ nRead' = 0
    /\ payload' = <<>>
    /\ IF UpperName(cat) \notin Categories
       THEN /\ ret' = "INVALID"
            /\ UNCHANGED <<registryVars, decoderVars, portVars, deviceVars, raised,
                           sessionVars>>
       ELSE LET curve == UpperName(cat) = "C"
                name == IF curve THEN Lit(<<"U", "C">>) ELSE Lit(<<UpperName(cat)>>)
                samples == IF curve THEN Lit(<<"0", "0", "0", "0">>) ELSE <<>>
                trig == IF curve THEN Lit(<<"0">>) ELSE <<>>
                trigend == IF curve THEN Lit(<<"0">>) ELSE <<>>
                request == Lit(<<"R", "A", "D", "A">>) \o name \o samples \o trig \o trigend
                line == inWaiting \o reply
                r1 == ReadUntil(line, IF curve THEN _endFlag ELSE _endOfTransmission)
                r2 == ReadN(r1.rest, 1)
                response == IF curve THEN r1.data \o r2.data ELSE r1.data
                rest == IF curve THEN r2.rest ELSE r1.rest
                chk == _checkErrors(response, FALSE)
                left == AnswerLeft(inWaiting, reply, response)
            IN /\ Len(rest) <= MaxWaiting
               /\ sent + left <= MaxBytes
               /\ sent' = sent + left
               /\ written' = request \o _calculateChecksum(request, FALSE)
                                \o <<_endOfTransmission>>
               /\ inWaiting' = rest
               /\ readTimeout' = IF curve THEN 5 ELSE timeout
               /\ timeout' = IF curve THEN 5 ELSE timeout
               /\ raised' = chk.exc
               /\ ret' = IF chk.exc = "none" THEN chk.status ELSE "raise"
               /\ UNCHANGED <<registryVars, decoderVars, streaming, script,
                              _extendedModeActive,
                              _activeProtocolVersion>>
    /\ UNCHANGED codecVars

\* readDataOnce(cat) with the default samples, trig and trigend; reply is what
\* the device answers. For curves the timeout is 5 while the response is read
\* and 1 afterwards.
ReadDataOnce(cat, reply) ==
    /\ raised = "none"
    /\ lastOp' = "readDataOnce"
    /\ nRead' = 0
    /\ payload' = <<>>
    /\ IF UpperName(cat) \notin Categories
       THEN /\ ret' = "INVALID"
            /\ UNCHANGED <<registryVars, decoderVars, portVars, deviceVars, raised,
                           sessionVars>>
       ELSE LET curve == UpperName(cat) = "C"
                name == IF curve THEN Lit(<<"U", "C">>) ELSE Lit(<<UpperName(cat)>>)
                samples == IF curve THEN Lit(<<"0", "0", "0", "0">>) ELSE <<>>
                trig == IF curve THEN Lit(<<"0">>) ELSE <<>>
                trigend == IF curve THEN Lit(<<"0">>) ELSE <<>>
                request == Lit(<<"R", "A", "D", "A">>) \o name \o samples \o trig \o trigend
                line == inWaiting \o reply
                r1 == ReadUntil(line, IF curve THEN _endFlag ELSE _endOfTransmission)
                r2 == ReadN(r1.rest, 1)
                response == IF curve THEN r1.data \o r2.data ELSE r1.data
                rest == IF curve THEN r2.rest ELSE r1.rest
                chk == _checkErrors(response, FALSE)
                left == AnswerLeft(inWaiting, reply, response)
            IN /\ Len(rest) <= MaxWaiting
               /\ sent + left <= MaxBytes
               /\ sent' = sent + left
               /\ written' = request \o _calculateChecksum(request, FALSE)
                                \o <<_endOfTransmission>>
               /\ inWaiting' = rest
               /\ readTimeout' = IF curve THEN 5 ELSE timeout
               /\ timeout' = IF curve THEN 1 ELSE timeout
               /\ raised' = chk.exc
               /\ ret' = IF chk.exc = "none" THEN chk.status ELSE "raise"
               /\ UNCHANGED <<registryVars, decoderVars, streaming, script,
                              _extendedModeActive,
                              _activeProtocolVersion>>
    /\ UNCHANGED codecVars

(***************************************************************************)
(* The command engine alone: the commands in any order with any of the     *)
(* answers, the device not streaming.                                      *)
(***************************************************************************)
CommandNext ==
    \/ \E reply \in HOReplies : GeneralCall(reply)
    \/ \E reply \in RCTYReplies : ReadCIType(reply)
    \/ \E reply \in RHVEReplies : GetMaxProtocol(reply)
    \/ \E version \in Versions, reply \in SPVEReplies : SetProtocol(version, reply)
    \/ \E cat \in DefCategories, channels \in ChannelLists, reply \in SDADReplies :
          DefineAcquiredData(cat, channels, reply)
    \/ \E cat \in OnceCategories : \E reply \in RADAReplies(UpperName(cat)) :
          ReadDataOnce(cat, reply)
    \/ \E channel \in ChannelIds : \E reply \in RCCOReplies(channel) :
          ReadChannelConfig(channel, reply)

CommandSpec == Init /\ [][CommandNext]_vars

(***************************************************************************)
(* The driver with its callers and the device.                             *)
(***************************************************************************)
Next ==
    \/ \E b \in CommandStreamBytes : DeviceSend(b)
    \/ ReadDataStream
    \/ \E cat \in DefCategories, channels \in ChannelLists, reply \in SDADReplies :
          DefineAcquiredData(cat, channels, reply)
    \/ \E channel \in ChannelIds : \E reply \in RCCOReplies(channel) :
          ReadChannelConfig(channel, reply)
    \/ StartDataStream
    \/ \E reply \in ESCReplies : EndDataStream(reply)

Spec == Init /\ [][Next]_vars


(***************************************************************************)
(* The streaming phase alone: the tables as defineAcquiredData and         *)
(* readChannelConfig leave them, startDataStream called, then stream bytes,*)
(* readDataStream calls and endDataStream.                                 *)
(***************************************************************************)
\* The entry readChannelConfig stores for channel ch from the device's answer.
ConfiguredEntry(ch) ==
    ParseConfiguration(TextFrame(ConfigBody(ch,
        Lit(<<"+", "1", "0", "0", "0", "-", "0", "0", "4">>),
        Lit(<<"+", "0", "0", "0", "0", "+", "0", "0", "0">>),
        Lit(<<"0", "4">>)), _endFlag)).entry

\* Open channel lists of one category: none, one or two configured channels.
None0 == <<>>
One1 == <<ConfiguredEntry(201)>>
Two2 == <<ConfiguredEntry(201), ConfiguredEntry(202)>>

\* An open channel table with the given curve, breath and setting lists.
Table(lc, lb, ls) ==
    [c \in Categories |-> IF c = "C" THEN lc ELSE IF c = "B" THEN lb
                          ELSE IF c = "S" THEN ls ELSE <<>>]

StreamTables == {Table(None0, None0, None0), Table(One1, Two2, One1),
                 Table(Two2, One1, Two2), Table(One1, None0, Two2),
                 Table(Two2, Two2, Two2)}

\* channelData as defineAcquiredData left it for the table oc.
DataOf(oc) == [c \in Categories |-> [ch \in {oc[c][i].ch : i \in 1..Len(oc[c])} |-> <<>>]]

StreamInit ==
    /\ openChannels \in StreamTables
    /\ channelData = DataOf(openChannels)
    /\ category = NewDecoder.category
    /\ phase = NewDecoder.phase
    /\ channelIndex = NewDecoder.channelIndex
    /\ value = NewDecoder.value
    /\ state = NewDecoder.state
    /\ message = NewDecoder.message
    /\ inWaiting = <<>>
    /\ written = StartRequest
    /\ streaming = TRUE
    /\ script = <<>>
    /\ sent = 0
    /\ raised = "none"
    /\ _extendedModeActive = FALSE
    /\ timeout = PortTimeout
    /\ readTimeout = PortTimeout
    /\ _activeProtocolVersion = IntValue(0)
    /\ payload = <<>>
    /\ arg = <<>>
    /\ argBinary = FALSE
    /\ result = NoResult
    /\ lastOp = "startDataStream"
    /\ ret = "None"
    /\ nRead = 0

StreamNext ==
    \/ \E b \in StreamBytes : DeviceSend(b)
    \/ ReadDataStream
    \/ \E reply \in ESCReplies : EndDataStream(reply)

StreamSpec == StreamInit /\ [][StreamNext]_vars


(***************************************************************************)
(* The streaming phase with a scripted device: it transmits one byte       *)
(* string, chosen at the start, and readDataStream is called at any time.  *)
(***************************************************************************)
\* All sequences over S of length at most n.
RECURSIVE SeqsUpTo(_, _)
SeqsUpTo(S, n) == IF n = 0 THEN {<<>>}
                  ELSE LET shorter == SeqsUpTo(S, n - 1)
                       IN shorter \cup {Append(q, x) : q \in shorter, x \in S}

RECURSIVE Flatten(_)
Flatten(pairs) == IF pairs = <<>> THEN <<>> ELSE Head(pairs) \o Flatten(Tail(pairs))

PhaseTags == {_inspPhase, _pausePhase, _expPhase}
AbsolutePairs == {<<0, 100>>, <<1, 0>>}       \* hi, lo of a curve absolute value
DeltaBytes == {5, 255}                        \* differential bytes, none a flag
ValuePairs == {<<0, 1>>, <<1, 0>>}            \* hi, lo of a breath/setting value
ChecksumBytes == {101}

\* phase flag, phase tag, value flag, absolute value, deltas, end flag, checksum
CurveScript(tag, abs, ds, chk) ==
    <<_phaseFlag, tag, _valueFlag>> \o abs \o ds \o <<_endFlag, chk>>
CurveScripts == {CurveScript(tag, abs, ds, chk) :
                    tag \in PhaseTags, abs \in AbsolutePairs,
                    ds \in SeqsUpTo(DeltaBytes, MaxDeltas), chk \in ChecksumBytes}

\* tag 'B' or 'S', two-byte values, end flag, checksum
ValueScript(tag, vals, chk) == <<tag>> \o Flatten(vals) \o <<_endFlag, chk>>
BreathScripts == {ValueScript(66, vals, chk) :
                    vals \in SeqsUpTo(ValuePairs, MaxValues), chk \in ChecksumBytes}
SettingScripts == {ValueScript(83, vals, chk) :
                    vals \in SeqsUpTo(ValuePairs, MaxValues), chk \in ChecksumBytes}

ShortScripts == SeqsUpTo(StreamBytes, MaxShort) \ {<<>>}

Scripts == CurveScripts \cup BreathScripts \cup SettingScripts \cup ShortScripts

ScriptInit ==
    /\ openChannels \in StreamTables
    /\ channelData = DataOf(openChannels)
    /\ category = NewDecoder.category
    /\ phase = NewDecoder.phase
    /\ channelIndex = NewDecoder.channelIndex
    /\ value = NewDecoder.value
    /\ state = NewDecoder.state
    /\ message = NewDecoder.message
    /\ inWaiting = <<>>
    /\ written = StartRequest
    /\ streaming = TRUE
    /\ script \in Scripts
    /\ sent = 0
    /\ raised = "none"
    /\ _extendedModeActive = FALSE
    /\ timeout = PortTimeout
    /\ readTimeout = PortTimeout
    /\ _activeProtocolVersion = IntValue(0)
    /\ payload = <<>>
    /\ arg = <<>>
    /\ argBinary = FALSE
    /\ result = NoResult
    /\ lastOp = "startDataStream"
    /\ ret = "None"
    /\ nRead = 0

\* The device puts the next byte of its script on the line.
ScriptSend ==
    /\ raised = "none"
    /\ UNCHANGED <<sessionVars, codecVars>>
    /\ streaming
    /\ sent < Len(script)
    /\ Len(inWaiting) < MaxWaiting
    /\ inWaiting' = Append(inWaiting, script[sent + 1])
    /\ sent' = sent + 1
    /\ UNCHANGED <<decoderVars, registryVars, written, readTimeout, streaming, script,
                   callVars>>

ScriptNext ==
    \/ ScriptSend
    \/ ReadDataStream

ScriptSpec == ScriptInit /\ [][ScriptNext]_vars


(***************************************************************************)
(* The channel tables: defineAcquiredData and readChannelConfig in any     *)
(* order with any of the answers, on two and five channels, and a         *)
(* breath stream that fills the sample lists in between.                   *)
(***************************************************************************)
\* More curve channels than the device accepts.
FiveCurves == <<101, 102, 103, 104, 105>>

\* The category and channel list arguments of defineAcquiredData.
TableLists == {<<>>, <<202, 201>>}
TableRequests == ({"B"} \X TableLists) \cup {<<"C", FiveCurves>>}

\* Answers to SDAD: accepted, a corrupted checksum, an error frame.
TableReplies == SDADReplies \ {<<>>}

\* Answers to RCCO for channel ch: those of RCCOReplies, an error frame and,
\* for the second channel, one whose gain has a five character exponent.
ConfigReplies(ch) ==
    RCCOReplies(ch) \cup
    {TextFrame(Lit(<<"E", "R", "1", "2">>), _endOfTransmission)} \cup
    IF ch = 201 THEN {} ELSE
    {TextFrame(ConfigBody(ch, Lit(<<"+", "1", "0", "0", "0", "-", "0", "0", "0", "4">>),
                          Lit(<<"+", "0", "0", "0", "0", "+", "0", "0", "0">>),
                          Lit(<<"0", "4">>)), _endFlag)}

\* The stream the device transmits: a breath message with one value.
BreathStream == <<66, 16, 16>>

\* The object after __init__, the device holding its stream.
TableInit ==
    /\ openChannels = NewOpenChannels
    /\ channelData = NewChannelData
    /\ category = NewDecoder.category
    /\ phase = NewDecoder.phase
    /\ channelIndex = NewDecoder.channelIndex
    /\ value = NewDecoder.value
    /\ state = NewDecoder.state
    /\ message = NewDecoder.message
    /\ inWaiting = <<>>
    /\ written = <<>>
    /\ streaming = FALSE
    /\ script = BreathStream
    /\ sent = 0
    /\ raised = "none"
    /\ _extendedModeActive = FALSE
    /\ timeout = PortTimeout
    /\ readTimeout = PortTimeout
    /\ _activeProtocolVersion = IntValue(0)
    /\ payload = <<>>
    /\ arg = <<>>
    /\ argBinary = FALSE
    /\ result = NoResult
    /\ lastOp = "__init__"
    /\ ret = "None"
    /\ nRead = 0

TableNext ==
    \/ \E req \in TableRequests, reply \in TableReplies :
          DefineAcquiredData(req[1], req[2], reply)
    \/ \E channel \in ChannelIds : \E reply \in ConfigReplies(channel) :
          ReadChannelConfig(channel, reply)
    \/ StartDataStream
    \/ ScriptSend
    \/ ReadDataStream

TableSpec == TableInit /\ [][TableNext]_vars


(***************************************************************************)
(* The whole driver on one object: every command in any order with any of  *)
(* the answers, and a scripted breath stream of two values decoded by      *)
(* readDataStream in between.                                              *)
(***************************************************************************)
\* The stream the device transmits: a breath tag and two values.
TwoBreaths == <<66, 0, 1, 1, 0>>

\* The object after __init__, the device holding its stream.
SharedInit ==
    /\ openChannels = NewOpenChannels
    /\ channelData = NewChannelData
    /\ category = NewDecoder.category
    /\ phase = NewDecoder.phase
    /\ channelIndex = NewDecoder.channelIndex
    /\ value = NewDecoder.value
    /\ state = NewDecoder.state
    /\ message = NewDecoder.message
    /\ inWaiting = <<>>
    /\ written = <<>>
    /\ streaming = FALSE
    /\ script = TwoBreaths
    /\ sent = 0
    /\ raised = "none"
    /\ _extendedModeActive = FALSE
    /\ timeout = PortTimeout
    /\ readTimeout = PortTimeout
    /\ _activeProtocolVersion = IntValue(0)
    /\ payload = <<>>
    /\ arg = <<>>
    /\ argBinary = FALSE
    /\ result = NoResult
    /\ lastOp = "__init__"
    /\ ret = "None"
    /\ nRead = 0

\* The answers of a device that accepts the request, and for the two table
\* commands also an answer whose checksum is corrupted.
Accepted == TextFrame(<<>>, _endOfTransmission)
SharedSDADReplies == {Accepted, Lit(<<"0", "1">>) \o <<_endOfTransmission>>}
SharedRCCOReplies == RCCOReplies(201) \ {<<>>}

SharedNext ==
    \/ ScriptSend
    \/ ReadDataStream
    \/ GeneralCall(AckToken \o <<_endOfTransmission>>)
    \/ ReadCIType(TextFrame(Lit(<<"0", "0", "0", "0", "0", "0", "0", "0">>),
                            _endOfTransmission))
    \/ GetMaxProtocol(TextFrame(Lit(<<"0", "0", "3">>), _endOfTransmission))
    \/ SetProtocol(BytesValue(Lit(<<"0", "0", "3">>)), Accepted)
    \/ \E channels \in ChannelLists, reply \in SharedSDADReplies :
          DefineAcquiredData("B", channels, reply)
    \/ ReadDataOnce("B", TextFrame(Lit(<<"1", "2">>), _endOfTransmission))
    \/ \E reply \in SharedRCCOReplies : ReadChannelConfig(201, reply)
    \/ StartDataStream
    \/ EndDataStream(TextFrame(<<_escape>>, _endFlag) \o <<100>>)

SharedSpec == SharedInit /\ [][SharedNext]_vars


(***************************************************************************)
(* The frame codec alone: _calculateChecksum and _checkErrors called on a  *)
(* message and a binary flag chosen at the start.                          *)
(***************************************************************************)
CodecBytes == {0, _endOfTransmission, 49, 69, 82, _endFlag, _errorFlag, 255}
BodyBytes == {49, 69, 82}
CorruptChars == {48, 53, 82}
ErrorFrameCodes == {9, 12, 20}

\* Text frames as the device builds them, and the same with one of the two
\* checksum characters replaced by another character.
Bodies == SeqsUpTo(BodyBytes, MaxBody)
TextFrames == {TextFrame(body, _endOfTransmission) : body \in Bodies}
CorruptedTextFrames ==
    {[f EXCEPT ![Len(f) - k] = c] : f \in TextFrames, k \in {1, 2}, c \in CorruptChars}
      \ TextFrames

\* Error frames: 'ER' and the two digits of the code, then checksum and
\* terminator; 0xE0 and the code byte, alone or followed by end flag and checksum.
ErrorBody(c) == Lit(<<"E", "R">>) \o ZFill(DecStr(c), 2)
TextErrorFrames == {TextFrame(ErrorBody(c), _endOfTransmission) : c \in ErrorFrameCodes}
BinaryErrorFrames ==
    {<<_errorFlag, c>> : c \in ErrorFrameCodes}
      \cup {<<_errorFlag, c, _endFlag>> \o _calculateChecksum(<<_errorFlag, c>>, TRUE) :
               c \in ErrorFrameCodes}

CodecMessages == SeqsUpTo(CodecBytes, MaxFrame) \cup TextFrames \cup CorruptedTextFrames
                   \cup TextErrorFrames \cup BinaryErrorFrames

CodecInit ==
    /\ openChannels = NewOpenChannels
    /\ channelData = NewChannelData
    /\ category = NewDecoder.category
    /\ phase = NewDecoder.phase
    /\ channelIndex = NewDecoder.channelIndex
    /\ value = NewDecoder.value
    /\ state = NewDecoder.state
    /\ message = NewDecoder.message
    /\ inWaiting = <<>>
    /\ written = <<>>
    /\ streaming = FALSE
    /\ script = <<>>
    /\ sent = 0
    /\ raised = "none"
    /\ _extendedModeActive = FALSE
    /\ timeout = PortTimeout
    /\ readTimeout = PortTimeout
    /\ _activeProtocolVersion = IntValue(0)
    /\ payload = <<>>
    /\ arg \in CodecMessages
    /\ argBinary \in BOOLEAN
    /\ result = NoResult
    /\ lastOp = "__init__"
    /\ ret = "None"
    /\ nRead = 0

\* _calculateChecksum(arg, argBinary) is called.
CalculateChecksum ==
    /\ result' = [op |-> "_calculateChecksum", exc |-> "none",
                  val |-> _calculateChecksum(arg, argBinary)]
    /\ UNCHANGED <<decoderVars, registryVars, portVars, deviceVars, callVars,
                   sessionVars, arg, argBinary>>

\* _checkErrors(arg, argBinary) is called.
CheckErrors ==
    /\ LET r == _checkErrors(arg, argBinary)
       IN result' = [op |-> "_checkErrors", exc |-> r.exc, val |-> r.status]
    /\ UNCHANGED <<decoderVars, registryVars, portVars, deviceVars, callVars,
                   sessionVars, arg, argBinary>>

CodecNext ==
    \/ CalculateChecksum
    \/ CheckErrors

CodecSpec == CodecInit /\ [][CodecNext]_vars


(***************************************************************************)
(* Properties of the stream decoder.                                       *)
(***************************************************************************)
\* Bytes of the stream readDataStream has consumed.
Consumed == sent - Len(inWaiting)

\* A byte as a signed 8-bit number.
Signed8(b) == IF b >= 128 THEN b - 256 ELSE b

\* first, first + d1, first + d1 + d2, ...
RECURSIVE RunningSums(_, _)
RunningSums(first, ds) ==
    IF ds = <<>> THEN <<first>>
    ELSE <<first>> \o RunningSums(first + Signed8(Head(ds)), Tail(ds))

\* The samples a curve script carries: its absolute value, then the running sums.
CurveSamples(scr) ==
    RunningSums(256 * scr[4] + scr[5], SubSeq(scr, 6, Len(scr) - 2))

Prefix(q, n) == SubSeq(q, 1, Min(Max(n, 0), Len(q)))

\* C1: with exactly one open, configured curve channel, a message phase flag,
\* phase tag, value flag, hi, lo, deltas d1..dn, end flag, checksum makes the
\* channel's samples exactly 256*hi+lo followed by the running sums, each delta
\* (the byte as a signed number) added to the sample before it; after k bytes
\* the samples are those of the values completed so far, and decoding never fails.
C1_CurveAbsoluteAndDeltas ==
    (script \in CurveScripts /\ Len(openChannels["C"]) = 1)
      => /\ raised = "none"
         /\ channelData["C"][openChannels["C"][1].ch]
               = Prefix(CurveSamples(script), Consumed - 4)
         /\ Consumed = Len(script) => state = "PHASE_FLAG"

\* C1 witness: the message 81 10 80 00 64 05 7F chk has been consumed and the
\* one curve channel holds [100, 105].
C1_Witness ==
    /\ script = <<129, 16, 128, 0, 100, 5, 127, 101>>
    /\ Consumed = Len(script)
    /\ Len(openChannels["C"]) = 1
    /\ channelData["C"][openChannels["C"][1].ch] = <<100, 105>>


\* The i-th two-byte value (i from 0) of a breath or setting script.
ValueAt(scr, i) == 256 * scr[2 * i + 2] + scr[2 * i + 3]

\* Values of a breath or setting script completed after n consumed bytes.
ValuesDone(scr, n) == Min(Max(n - 1, 0) \div 2, (Len(scr) - 3) \div 2)

\* Of the first m values of the script, those whose index is j modulo k, in order.
RECURSIVE Demux(_, _, _, _)
Demux(scr, m, k, j) ==
    IF m = 0 THEN <<>>
    ELSE IF (m - 1) % k = j THEN Append(Demux(scr, m - 1, k, j), ValueAt(scr, m - 1))
    ELSE Demux(scr, m - 1, k, j)

\* The sample lists of every category but c are empty.
OthersEmpty(c) ==
    \A d \in Categories \ {c} : \A ch \in DOMAIN channelData[d] : channelData[d][ch] = <<>>

\* C2: with k >= 1 open, configured breath channels c0..c(k-1), a breath message
\* 'B', n two-byte big-endian values, end flag, checksum appends the i-th value
\* to channel c(i mod k) and to no other channel, without failing.
C2_BreathMultiplexing ==
    (script \in BreathScripts /\ Len(openChannels["B"]) >= 1)
      => /\ raised = "none"
         /\ \A j \in 1..Len(openChannels["B"]) :
               channelData["B"][openChannels["B"][j].ch]
                 = Demux(script, ValuesDone(script, Consumed),
                         Len(openChannels["B"]), j - 1)
         /\ OthersEmpty("B")

\* C2 witness: channels [201, 202], four values consumed; 201 holds the first
\* and third, 202 the second and fourth.
C2_Witness ==
    /\ script = <<66, 0, 1, 1, 0, 1, 0, 0, 1, 127, 101>>
    /\ Consumed = Len(script)
    /\ Len(openChannels["B"]) = 2
    /\ channelData["B"][201] = <<1, 256>>
    /\ channelData["B"][202] = <<256, 1>>

\* C3: in a setting message the decoder is back in the setting first-byte state
\* after each completed value, and the i-th value goes to setting channel
\* i mod (number of open setting channels), whatever the number of open breath
\* channels, without failing.
C3_SettingMultiplexing ==
    (script \in SettingScripts /\ Len(openChannels["S"]) >= 1)
      => /\ raised = "none"
         /\ \A j \in 1..Len(openChannels["S"]) :
               channelData["S"][openChannels["S"][j].ch]
                 = Demux(script, ValuesDone(script, Consumed),
                         Len(openChannels["S"]), j - 1)
         /\ (Consumed >= 3 /\ Consumed <= Len(script) - 2 /\ Consumed % 2 = 1)
               => state = "SETTING_FIRST_BYTE"

\* C4: the cycle position of the in-progress category is at least 0 and less
\* than the number of its open channels whenever it has an open channel.
C4_CyclePositionInRange ==
    (category \in Categories /\ Len(openChannels[category]) > 0)
      => (0 <= channelIndex /\ channelIndex < Len(openChannels[category]))

\* C5: a message of a category with no open channel is decoded without failing.
C5_ZeroChannelsNoFailure ==
    (category \in Categories /\ Len(openChannels[category]) = 0) => raised = "none"

\* The object before the branch of the iteration for byte b.
Accumulated(b) == [Self EXCEPT !.message = @ \o PyFrom(Format0x02x(b), 2)]

\* A freshly constructed decoder on the present sample lists.
FreshSelf == [category |-> NewDecoder.category, phase |-> NewDecoder.phase,
              channelIndex |-> NewDecoder.channelIndex, value |-> NewDecoder.value,
              state |-> NewDecoder.state, message |-> NewDecoder.message,
              channelData |-> channelData, raised |-> "none"]

TagBytes == {_phaseFlag, _valueFlag, 66, 83}

\* C6: the decoder is never in ERROR between two bytes; a byte that takes the
\* branch to ERROR resets category, cycle position, message accumulator and
\* state in that same step, and then every tag byte gives the state, category
\* and cycle position it gives as first byte of a fresh decoder.
C6_ErrorResync ==
    /\ [](state # "ERROR")
    /\ [][(ReadDataStream /\ Len(inWaiting) = 1
             /\ Branch(openChannels, Accumulated(inWaiting[1]),
                       Format0x02x(inWaiting[1])).state = "ERROR")
            => /\ state' = "PHASE_FLAG"
               /\ category' = ""
               /\ channelIndex' = 0
               /\ message' = <<>>
               /\ raised' = "none"
               /\ \A t \in TagBytes :
                     LET after == StepByte(openChannels, Self', t)
                         fresh == StepByte(openChannels, FreshSelf, t)
                     IN /\ after.state = fresh.state
                        /\ after.category = fresh.category
                        /\ after.channelIndex = fresh.channelIndex]_vars

\* C6 witness: a byte that is no tag was consumed, then 'B' in a call of its
\* own; the message accumulator holds the tag only.
C6_Witness ==
    /\ lastOp = "readDataStream"
    /\ Consumed = 2
    /\ nRead = 1
    /\ state = "BREATH_FIRST_BYTE"
    /\ category = "B"
    /\ channelIndex = 0
    /\ message = Lit(<<"4", "2">>)

\* C7: in PHASE_DATA a byte other than 0x10, 0x20, 0x30 is an ERROR: the decoder
\* resets in that step and does not go on to the differential state.
C7_BadPhaseTagIsError ==
    [][(ReadDataStream /\ state = "PHASE_DATA" /\ Len(inWaiting) = 1
          /\ inWaiting[1] \notin PhaseTags)
         => (state' = "PHASE_FLAG" /\ category' = "" /\ channelIndex' = 0)]_vars

\* C8: readDataStream with no byte waiting changes nothing of the decoder, the
\* open channel table, the samples and the transport.
C8_ZeroBytesNoOp ==
    [][(ReadDataStream /\ inWaiting = <<>>)
         => (UNCHANGED <<decoderVars, registryVars, portVars>>
               /\ raised' = raised /\ nRead' = 0)]_vars

\* C8 witness: a call that consumed nothing returned in the middle of a message.
C8_Witness ==
    /\ lastOp = "readDataStream"
    /\ nRead = 0
    /\ inWaiting = <<>>
    /\ state = "CURVE_SECND_BYTE"
    /\ message # <<>>

\* C9: however the bytes consumed so far were split over calls, the decoder and
\* the samples are those of one call fed all of them on a fresh decoder.
C9_ChunkingIndependence ==
    Self = ReadLoop(openChannels,
                    [category |-> NewDecoder.category, phase |-> NewDecoder.phase,
                     channelIndex |-> NewDecoder.channelIndex,
                     value |-> NewDecoder.value, state |-> NewDecoder.state,
                     message |-> NewDecoder.message,
                     channelData |-> DataOf(openChannels), raised |-> "none"],
                    SubSeq(script, 1, Consumed), 0).o

\* C9 witness: a curve message with two deltas consumed to its end, the last
\* call taking the checksum alone, an earlier one having returned between the
\* two bytes of the absolute value (the samples are complete all the same).
C9_Witness ==
    /\ script = <<129, 32, 128, 1, 0, 5, 255, 127, 101>>
    /\ Consumed = Len(script)
    /\ nRead = 1
    /\ raised = "none"
    /\ state = "PHASE_FLAG"
    /\ Len(openChannels["C"]) = 1
    /\ channelData["C"][201] = <<256, 261, 260>>

\* C10: from PHASE_FLAG one byte selects: 0x81 curve, phase tag next; 0x80 curve,
\* first value byte next; 'B' breath; 'S' setting; any other byte is an ERROR
\* that leaves the decoder in PHASE_FLAG with no category and appends no sample.
C10_IdleDispatch ==
    [][(ReadDataStream /\ state = "PHASE_FLAG" /\ Len(inWaiting) = 1)
         => /\ raised' = "none"
            /\ channelData' = channelData
            /\ CASE inWaiting[1] = 129 -> category' = "C" /\ state' = "PHASE_DATA"
                 [] inWaiting[1] = 128 -> category' = "C" /\ state' = "CURVE_FIRST_BYTE"
                 [] inWaiting[1] = 66 -> category' = "B" /\ state' = "BREATH_FIRST_BYTE"
                 [] inWaiting[1] = 83 -> category' = "S" /\ state' = "SETTING_FIRST_BYTE"
                 [] OTHER -> category' = "" /\ state' = "PHASE_FLAG"]_vars

\* C10 witness: the value flag 0x80 was consumed from PHASE_FLAG in a call of its own.
C10_Witness ==
    /\ lastOp = "readDataStream"
    /\ nRead = 1
    /\ Consumed = 1
    /\ state = "CURVE_FIRST_BYTE"
    /\ category = "C"
    /\ message = Lit(<<"8", "0">>)

\* Every value a byte can have.
AllBytes == 0..255

\* The decoder fields a message start depends on, and the outcome of the step.
StartView(o) == <<o.state, o.category, o.channelIndex, o.message, o.channelData, o.raised>>

\* C11: the end flag taken in the curve delta/control, breath or setting
\* first-byte state leads to CHECK_SUM without a sample; in CHECK_SUM the next
\* byte, whatever its value, appends no sample, clears category, cycle position
\* and message accumulator and returns to PHASE_FLAG, and the byte after it is
\* decoded as the first byte of a fresh decoder is. (The decoder is looked at
\* when readDataStream has returned, with nothing waiting: it changes nowhere else.)
C11_ChecksumByteEndsMessage ==
    /\ []((raised = "none" /\ inWaiting = <<>>
              /\ state \in {"DIFF_VAL_BYTE", "BREATH_FIRST_BYTE", "SETTING_FIRST_BYTE"})
            => LET o == StepByte(openChannels, Self, _endFlag)
               IN o.state = "CHECK_SUM" /\ o.channelData = channelData
                    /\ o.raised = "none")
    /\ []((raised = "none" /\ inWaiting = <<>> /\ state = "CHECK_SUM")
            => \A b \in AllBytes :
                  LET o == StepByte(openChannels, Self, b)
                  IN /\ o.state = "PHASE_FLAG"
                     /\ o.category = ""
                     /\ o.channelIndex = 0
                     /\ o.message = <<>>
                     /\ o.channelData = channelData
                     /\ o.raised = "none"
                     /\ b = _endFlag =>
                           \A t \in AllBytes :
                              StartView(StepByte(openChannels, o, t))
                                = StartView(StepByte(openChannels, FreshSelf, t)))
    /\ [][(ReadDataStream /\ state = "CHECK_SUM" /\ Len(inWaiting) = 1)
            => /\ state' = "PHASE_FLAG"
               /\ category' = ""
               /\ channelIndex' = 0
               /\ message' = <<>>
               /\ channelData' = channelData
               /\ raised' = "none"]_vars

\* C11 witness: a setting message with two values (the second one read by the
\* breath branches) was consumed to its checksum, which came in a call of its
\* own; the decoder is idle and the samples are those of the values.
C11_Witness ==
    /\ script = <<83, 0, 1, 1, 0, 127, 101>>
    /\ Consumed = Len(script)
    /\ nRead = 1
    /\ lastOp = "readDataStream"
    /\ state = "PHASE_FLAG"
    /\ category = ""
    /\ channelIndex = 0
    /\ message = <<>>
    /\ raised = "none"
    /\ Len(openChannels["S"]) = 2
    /\ channelData["S"][201] = <<1>>
    /\ channelData["S"][202] = <<256>>

\* The delta a byte of the curve delta/control state stands for.
DeltaOf(b) == IF b < 130 THEN b ELSE b - 256

\* The curve channel at the cycle position holds a last sample.
HasLastSample ==
    /\ raised = "none"
    /\ category = "C"
    /\ channelIndex < Len(openChannels["C"])
    /\ openChannels["C"][channelIndex + 1].kind = "list"
    /\ openChannels["C"][channelIndex + 1].ch \in DOMAIN channelData["C"]
    /\ channelData["C"][openChannels["C"][channelIndex + 1].ch] # <<>>

\* The sample lists after appending value v to curve channel ch.
WithSample(ch, v) == [channelData EXCEPT !["C"][ch] = Append(@, v)]

\* C12: in DIFF_VAL_BYTE a byte other than 0x7F, 0x80, 0x81 appends to the
\* channel at the cycle position its last sample plus the byte when the byte is
\* below 0x82 and plus the byte minus 256 otherwise, a delta in [-126, 126];
\* the three flag bytes append nothing. (The decoder is looked at when
\* readDataStream has returned, with nothing waiting: it changes nowhere else.)
C12_SignedDelta ==
    /\ []((state = "DIFF_VAL_BYTE" /\ HasLastSample /\ inWaiting = <<>>)
            => LET ch == openChannels["C"][channelIndex + 1].ch
                   last == channelData["C"][ch][Len(channelData["C"][ch])]
               IN \A b \in AllBytes :
                     LET o == StepByte(openChannels, Self, b)
                     IN IF b \in {_endFlag, _valueFlag, _phaseFlag}
                        THEN o.channelData = channelData /\ o.raised = "none"
                        ELSE /\ o.raised = "none"
                             /\ o.channelData = WithSample(ch, last + DeltaOf(b))
                             /\ DeltaOf(b) >= -126 /\ DeltaOf(b) <= 126
                             /\ o.state = "DIFF_VAL_BYTE")
    /\ [][(ReadDataStream /\ state = "DIFF_VAL_BYTE" /\ HasLastSample
             /\ Len(inWaiting) = 1
             /\ inWaiting[1] \notin {_endFlag, _valueFlag, _phaseFlag})
            => LET ch == openChannels["C"][channelIndex + 1].ch
                   last == channelData["C"][ch][Len(channelData["C"][ch])]
               IN channelData' = WithSample(ch, last + DeltaOf(inWaiting[1]))]_vars

\* C12 witness: after the absolute value 100 the delta byte 0xFF was consumed in
\* a call of its own and the channel holds 100 and 99.
C12_Witness ==
    /\ script = <<129, 16, 128, 0, 100, 255, 127, 101>>
    /\ Consumed = 6
    /\ nRead = 1
    /\ state = "DIFF_VAL_BYTE"
    /\ raised = "none"
    /\ Len(openChannels["C"]) = 1
    /\ channelData["C"][201] = <<100, 99>>

\* C13: when endDataStream has returned, whatever the response, the decoder is
\* idle: state PHASE_FLAG, no category, cycle position 0, empty message
\* accumulator.
C13_EndLeavesDecoderIdle ==
    lastOp = "endDataStream"
      => /\ state = "PHASE_FLAG"
         /\ category = ""
         /\ channelIndex = 0
         /\ message = <<>>

\* C14: when startDataStream has returned, every sample list is empty and the
\* decoder is idle: state PHASE_FLAG, no category, cycle position 0.
C14_StartResetsSamplesAndDecoder ==
    lastOp = "startDataStream"
      => /\ \A c \in Categories : \A ch \in DOMAIN channelData[c] : channelData[c][ch] = <<>>
         /\ state = "PHASE_FLAG"
         /\ category = ""
         /\ channelIndex = 0

(***************************************************************************)
(* Properties of the frame codec.                                          *)
(***************************************************************************)
\* Bit i of n, and the exclusive or of the bytes of seq bit by bit: bit i of
\* the result is the parity of the number of bytes that have bit i set.
Bit(n, i) == (n \div (2 ^ i)) % 2
OnesAt(seq, i) == Cardinality({k \in 1..Len(seq) : Bit(seq[k], i) = 1})
RECURSIVE ParityBits(_, _)
ParityBits(seq, i) == IF i > 7 THEN 0
                      ELSE (OnesAt(seq, i) % 2) * (2 ^ i) + ParityBits(seq, i + 1)
XorAll(seq) == ParityBits(seq, 0)

\* The digits of upper-case hexadecimal text and the value of two of them.
UpperHexChars == <<48, 49, 50, 51, 52, 53, 54, 55, 56, 57, 65, 66, 67, 68, 69, 70>>
IsUpperHex(c) == \E k \in 1..16 : UpperHexChars[k] = c
DigitOf(c) == (CHOOSE k \in 1..16 : UpperHexChars[k] = c) - 1
HexDecode2(t) == 16 * DigitOf(t[1]) + DigitOf(t[2])

\* The code of the error frame given to _checkErrors: 'ER' and the two decimal
\* digits of an error code of the closed set, or 0xE0 and such a code byte; -1
\* when the message is no error frame.
IsDigit(c) == c \in 48..57
ErrorFrameCode ==
    IF argBinary
    THEN IF Len(arg) >= 2 /\ arg[1] = _errorFlag /\ arg[2] \in DOMAIN Error \ {0}
         THEN arg[2] ELSE -1
    ELSE IF Len(arg) >= 4 /\ arg[1] = 69 /\ arg[2] = 82 /\ IsDigit(arg[3]) /\ IsDigit(arg[4])
              /\ 10 * (arg[3] - 48) + (arg[4] - 48) \in DOMAIN Error \ {0}
         THEN 10 * (arg[3] - 48) + (arg[4] - 48) ELSE -1

\* C15: _checkErrors called on an error frame returns the ErrorCode of the
\* code the frame carries and does not raise.
C15_ErrorFramesReturned ==
    (result.op = "_checkErrors" /\ ErrorFrameCode # -1)
      => (result.exc = "none" /\ result.val = Error[ErrorFrameCode])

\* C16: the binary form of _calculateChecksum is exactly one byte, the exclusive
\* or of all bytes of the message, and equals the value of the text form, which
\* is two upper-case hexadecimal characters.
C16_ChecksumForms ==
    result.op = "_calculateChecksum"
      => LET bin == _calculateChecksum(arg, TRUE)
             txt == _calculateChecksum(arg, FALSE)
         IN /\ result.val = (IF argBinary THEN bin ELSE txt)
            /\ Len(bin) = 1
            /\ bin[1] = XorAll(arg)
            /\ Len(txt) = 2
            /\ IsUpperHex(txt[1]) /\ IsUpperHex(txt[2])
            /\ HexDecode2(txt) = bin[1]

\* C16 witness: the binary checksum of 'E', 'R' was computed: one byte, 0x17.
C16_Witness ==
    /\ result.op = "_calculateChecksum"
    /\ argBinary
    /\ arg = <<69, 82>>
    /\ result.val = <<23>>

\* The frame built for a body, and the frame with the checksum character at
\* offset k from the terminator replaced by c.
FrameOf(body) == body \o _calculateChecksum(body, FALSE) \o <<_endOfTransmission>>
Changed(f, k, c) == [f EXCEPT ![Len(f) - k] = c]
BeginsWithER(s) == Len(s) >= 2 /\ s[1] = 69 /\ s[2] = 82

\* C17: for a body that does not begin with 'ER' the frame body, checksum of
\* the body, 0x04 is classified NO_ERROR, and the frame with either checksum
\* character changed to another character is classified RX_CHKSUM.
C17_TextRoundTrip ==
    (result.op = "_checkErrors" /\ ~argBinary)
      => \A body \in Bodies :
            ~BeginsWithER(body)
              => /\ arg = FrameOf(body)
                    => (result.exc = "none" /\ result.val = "NO_ERROR")
                 /\ \A k \in {1, 2}, c \in CorruptChars :
                       (arg = Changed(FrameOf(body), k, c) /\ arg # FrameOf(body))
                         => (result.exc = "none" /\ result.val = "RX_CHKSUM")

\* C18: a binary frame that does not begin with 0xE0 is NO_ERROR when its last
\* byte is the exclusive or of the bytes before its last two, and RX_CHKSUM
\* otherwise.
C18_BinaryClassification ==
    (result.op = "_checkErrors" /\ argBinary /\ Len(arg) >= 2 /\ arg[1] # _errorFlag)
      => /\ result.exc = "none"
         /\ result.val = (IF arg[Len(arg)] = XorAll(SubSeq(arg, 1, Len(arg) - 2))
                          THEN "NO_ERROR" ELSE "RX_CHKSUM")

\* C18 witness: the binary frame 0xFF, 0x7F, 0xFF was classified NO_ERROR.
C18_Witness ==
    /\ result.op = "_checkErrors"
    /\ argBinary
    /\ arg = <<255, _endFlag, 255>>
    /\ result.exc = "none"
    /\ result.val = "NO_ERROR"

\* The message is shorter than a frame: empty, a lone terminator, 'ER' without
\* two code digits, or the binary error marker without a code byte.
ShortFrame ==
    \/ arg = <<>>
    \/ arg = <<_endOfTransmission>>
    \/ ~argBinary /\ BeginsWithER(arg)
         /\ ~(Len(arg) >= 4 /\ IsDigit(arg[3]) /\ IsDigit(arg[4]))
    \/ argBinary /\ arg = <<_errorFlag>>

\* C19: _checkErrors called on a message shorter than a frame does not raise
\* and does not return NO_ERROR.
C19_ShortFramesRejected ==
    (result.op = "_checkErrors" /\ ShortFrame)
      => (result.exc = "none" /\ result.val # "NO_ERROR")

(***************************************************************************)
(* Properties of the command engine.                                       *)
(***************************************************************************)
\* Channel ch is in no category's list of open channels.
NotOpen(ch) ==
    \A c \in Categories : \A k \in 1..Len(openChannels[c]) : openChannels[c][k].ch # ch

\* A call returned INVALID and touched nothing: no write to and no read from the
\* transport, extended-mode flag, open channel table, samples and decoder as before.
InvalidUntouched ==
    /\ ret' = "INVALID"
    /\ raised' = "none"
    /\ UNCHANGED <<portVars, sessionVars, registryVars, decoderVars>>

\* C20: defineAcquiredData and readDataOnce with a category outside
\* {C, B, T, S, A, E} and readChannelConfig with a channel that is in no
\* category's open channel table return INVALID and touch nothing.
C20_LocalValidationTouchesNothing ==
    [][((\E cat \in DefCategories \ Categories, channels \in ChannelLists,
            reply \in SDADReplies : DefineAcquiredData(cat, channels, reply))
        \/ (\E cat \in OnceCategories \ Categories :
              \E reply \in RADAReplies(UpperName(cat)) : ReadDataOnce(cat, reply))
        \/ (\E channel \in ChannelIds :
              NotOpen(channel) /\ \E reply \in RCCOReplies(channel) :
                                     ReadChannelConfig(channel, reply)))
         => InvalidUntouched]_vars

\* C20 amended: the same, where for readDataOnce the category is outside the set
\* after conversion to upper case (readDataOnce('c') is readDataOnce('C')).
C20_LocalValidationAmended ==
    [][((\E cat \in DefCategories \ Categories, channels \in ChannelLists,
            reply \in SDADReplies : DefineAcquiredData(cat, channels, reply))
        \/ (\E cat \in OnceCategories :
              UpperName(cat) \notin Categories
                /\ \E reply \in RADAReplies(UpperName(cat)) : ReadDataOnce(cat, reply))
        \/ (\E channel \in ChannelIds :
              NotOpen(channel) /\ \E reply \in RCCOReplies(channel) :
                                     ReadChannelConfig(channel, reply)))
         => InvalidUntouched]_vars

\* C20 witness: with the extended-mode flag set by readCIType and a breath
\* channel open, readDataOnce returned INVALID and the last frame written is
\* still the RCTY request.
C20_Witness ==
    /\ lastOp = "readDataOnce"
    /\ ret = "INVALID"
    /\ raised = "none"
    /\ _extendedModeActive
    /\ Len(openChannels["B"]) = 1
    /\ written = Lit(<<"R", "C", "T", "Y">>)
                   \o _calculateChecksum(Lit(<<"R", "C", "T", "Y">>), FALSE)
                   \o <<_endOfTransmission>>


(***************************************************************************)
(* Channel tables.                                                         *)
(***************************************************************************)
\* The channel ids of a list, and the sample lists of a category that hold a sample.
ChannelSet(channels) == {channels[i] : i \in 1..Len(channels)}
Pending(data) == {ch \in DOMAIN data : data[ch] # <<>>}

\* A step of the device, which is no call of the driver.
DeviceStep ==
    \/ ScriptSend
    \/ inWaiting' # <<>> /\ DeviceSend(inWaiting'[Len(inWaiting')])

\* defineAcquiredData(cat, channels) has returned: it was called last and its
\* request is the frame written last.
Defined(cat, channels) ==
    /\ lastOp = "defineAcquiredData"
    /\ ret # "INVALID"
    /\ PyTo(written, -3) = Lit(<<"S", "D", "A", "D", cat>>) \o ChannelsText(channels)

\* C21: defineAcquiredData(category, channels) with a non-empty list: when the
\* call returns NO_ERROR the category's table entry is the given list in the
\* given order and the category holds one empty sample list per listed channel
\* and nothing else; when the response is an error or fails its checksum the
\* category's table entry and sample lists are unchanged; every other
\* category's table entry and sample lists are unchanged in both cases.
C21_DefineReplacesCategory ==
    [][\A req \in TableRequests :
         (Len(req[2]) > 0 /\ Defined(req[1], req[2])' /\ ~DeviceStep)
         => /\ (ret' = "NO_ERROR")
                 => /\ Len(openChannels'[req[1]]) = Len(req[2])
                    /\ \A i \in 1..Len(req[2]) :
                          /\ openChannels'[req[1]][i].kind = "int"
                          /\ openChannels'[req[1]][i].ch = req[2][i]
                    /\ DOMAIN channelData'[req[1]] = ChannelSet(req[2])
                    /\ Pending(channelData'[req[1]]) = {}
            /\ (ret' # "NO_ERROR")
                 => /\ openChannels'[req[1]] = openChannels[req[1]]
                    /\ channelData'[req[1]] = channelData[req[1]]
            /\ \A c \in Categories \ {req[1]} :
                  /\ openChannels'[c] = openChannels[c]
                  /\ channelData'[c] = channelData[c]]_vars

\* The breath stream was decoded into a sample of channel 201, five curve
\* channels are open, and category B was then defined anew with two channels.
C21_Witness ==
    /\ lastOp = "defineAcquiredData" /\ ret = "NO_ERROR"
    /\ message = Lit(<<"4", "2", "1", "0", "1", "0">>)
    /\ Len(openChannels["C"]) = 5
    /\ openChannels["B"] = <<IntEntry(202), IntEntry(201)>>
    /\ DOMAIN channelData["B"] = {201, 202}
    /\ Pending(channelData["B"]) = {}

\* C22: defineAcquiredData with an empty channel list and a valid response
\* clears the category's table entry and discards the pending samples of the
\* channels that were open in it: no sample of such a channel is left in the
\* category's sample lists.
C22_EmptyListDiscardsSamples ==
    [][\A req \in TableRequests :
         (Len(req[2]) = 0 /\ Defined(req[1], req[2])' /\ ret' = "NO_ERROR" /\ ~DeviceStep)
         => /\ openChannels'[req[1]] = <<>>
            /\ \A i \in 1..Len(openChannels[req[1]]) :
                  openChannels[req[1]][i].ch \notin Pending(channelData'[req[1]])]_vars

\* C23: the open channel table never holds more than 4 channels for Curve nor
\* more than 50 for any other category, whatever the device answers.
C23_ChannelCeilings ==
    /\ Len(openChannels["C"]) <= 4
    /\ \A c \in Categories \ {"C"} : Len(openChannels[c]) <= 50

(***************************************************************************)
(* Session commands.                                                       *)
(***************************************************************************)
\* A text response read from the line for the answer reply.
ResponseTo(reply) == ReadUntil(inWaiting \o reply, _endOfTransmission).data

\* The two characters before the terminator are the upper-case hexadecimal
\* text of the exclusive or of the bytes before them.
ChecksumValid(resp) ==
    /\ Len(resp) >= 3
    /\ IsUpperHex(resp[Len(resp) - 2]) /\ IsUpperHex(resp[Len(resp) - 1])
    /\ HexDecode2(<<resp[Len(resp) - 2], resp[Len(resp) - 1]>>)
          = XorAll(SubSeq(resp, 1, Len(resp) - 3))

\* The code a text error frame carries.
CodeOf(resp) == 10 * (resp[3] - 48) + (resp[4] - 48)

\* C24: readCIType sets the extended-mode flag and returns NO_ERROR only when
\* the response passes checksum validation and has the digit '0' at offset 7;
\* with a valid checksum and another byte there it returns CIE_ERROR and leaves
\* the flag; with an error frame or a checksum failure it returns that error
\* and leaves the flag; it never clears the flag.
C24_ReadCITypeOutcomes ==
    [][\A reply \in RCTYReplies :
         ReadCIType(reply)
         => LET resp == ResponseTo(reply)
                flag == _extendedModeActive
            IN /\ (~BeginsWithER(resp) /\ ChecksumValid(resp))
                    => IF Len(resp) >= 8 /\ resp[8] = 48
                       THEN ret' = "NO_ERROR" /\ _extendedModeActive'
                       ELSE ret' = "CIE_ERROR" /\ _extendedModeActive' = flag
               /\ (~BeginsWithER(resp) /\ ~ChecksumValid(resp))
                    => (ret' = "RX_CHKSUM" /\ _extendedModeActive' = flag)
               /\ BeginsWithER(resp)
                    => (ret' = Error[CodeOf(resp)] /\ _extendedModeActive' = flag)
               /\ (flag => _extendedModeActive')
               /\ (_extendedModeActive' /\ ~flag) => ret' = "NO_ERROR"]_vars

\* C25: generalCall writes 'HO' and 0x04 with no checksum, returns the response
\* as read whatever it holds, and clears the extended-mode flag exactly when
\* '900PCI' occurs in the response; over any sequence of commands the flag is
\* true exactly when the most recent of the successful readCIType calls and
\* the acknowledged generalCall calls was a readCIType: it is false at the
\* start, each successful readCIType sets it, each acknowledged generalCall
\* clears it and no other call changes it.
C25_GeneralCallAndFlag ==
    /\ ~_extendedModeActive
    /\ [][/\ \A reply \in HOReplies :
               GeneralCall(reply)
               => /\ written' = <<72, 79, 4>>
                  /\ raised' = "none" /\ ret' = "bytes"
                  /\ payload' = ResponseTo(reply)
                  /\ _extendedModeActive' =
                       (_extendedModeActive /\ ~Contains(ResponseTo(reply), AckToken))
          /\ _extendedModeActive' =
               IF lastOp' = "readCIType" /\ ret' = "NO_ERROR" THEN TRUE
               ELSE IF lastOp' = "generalCall" /\ Contains(payload', AckToken) THEN FALSE
               ELSE _extendedModeActive]_vars

\* C25 witness: extended mode was entered, and a generalCall answered with an
\* error frame returned the frame as read and left the flag set.
C25_Witness ==
    /\ lastOp = "generalCall"
    /\ written = <<72, 79, 4>>
    /\ payload = TextFrame(Lit(<<"E", "R", "1", "1">>), _endOfTransmission)
    /\ ret = "bytes" /\ raised = "none"
    /\ _extendedModeActive

(***************************************************************************)
(* Channel configuration.                                                  *)
(***************************************************************************)
\* readChannelConfig(channel) has returned for an open channel: it was called
\* last, did not return INVALID, and its request is the frame written last.
Configured(channel) ==
    /\ lastOp = "readChannelConfig"
    /\ ret # "INVALID"
    /\ PyTo(written, -3) = Lit(<<"R", "C", "C", "O">>) \o DecStr(channel)

\* The table positions whose entry differs between the tables oc and nc.
ChangedEntries(oc, nc) ==
    {p \in Categories \X (1..Len(FiveCurves)) :
        /\ p[2] <= Len(oc[p[1]]) /\ p[2] <= Len(nc[p[1]])
        /\ oc[p[1]][p[2]] # nc[p[1]][p[2]]}

\* C26: readChannelConfig(channel) for an open channel replaces only that
\* channel's entry, at the list position it had: the length of every
\* category's list, every other entry and the sample lists are unchanged, and
\* when the call returns NO_ERROR the entry at that position is a configuration.
C26_ConfigReplacesInPlace ==
    [][\A channel \in ChannelIds :
         (Configured(channel)' /\ ~DeviceStep)
         => /\ channelData' = channelData
            /\ \A c \in Categories : Len(openChannels'[c]) = Len(openChannels[c])
            /\ Cardinality(ChangedEntries(openChannels, openChannels')) <= 1
            /\ \A p \in ChangedEntries(openChannels, openChannels') :
                  /\ openChannels[p[1]][p[2]] = IntEntry(channel)
                  /\ \A j \in 1..(p[2] - 1) : openChannels[p[1]][j] # IntEntry(channel)
                  /\ openChannels'[p[1]][p[2]].kind = "list"
            /\ (ret' = "NO_ERROR")
                 => Cardinality(ChangedEntries(openChannels, openChannels')) = 1]_vars

\* C26 witness: channel 202 at the first position holds a pending sample and
\* five curve channels are open when readChannelConfig(201) returns NO_ERROR
\* with the configuration at the second position.
C26_Witness ==
    /\ Configured(201) /\ ret = "NO_ERROR"
    /\ Len(openChannels["B"]) = 2
    /\ openChannels["B"][1].kind = "list" /\ openChannels["B"][1].ch = 202
    /\ openChannels["B"][2].kind = "list" /\ openChannels["B"][2].ch = 201
    /\ Pending(channelData["B"]) = {202}
    /\ Len(openChannels["C"]) = 5

\* The number a gain or offset field stands for: the unset sentinel for a
\* placeholder, else the mantissa of the first five characters and the
\* exponent of the characters after them.
FieldNumber(field) ==
    IF HasDashes(field) THEN NoneNumber
    ELSE Number(PyInt(SubSeq(field, 1, 5)).v, PyInt(SubSeq(field, 6, Len(field))).v)

\* A number with the factors 10 of its mantissa moved to the exponent, and
\* two decoded numbers with the same value mant * 10 ^ exp.
RECURSIVE Normal(_)
Normal(a) == IF a.mant # 0 /\ a.mant % 10 = 0
             THEN Normal(Number(a.mant \div 10, a.exp + 1)) ELSE a
SameValue(a, b) ==
    /\ ~a.unset /\ ~b.unset
    /\ (a.mant = 0 /\ b.mant = 0) \/ Normal(a) = Normal(b)

\* The comma separated fields of a response to RCCO.
FieldsOf(response) == Split(PySlice(response, 4, -9), 44)

\* C27: the configuration readChannelConfig stores decodes a gain or offset
\* field of mantissa +1000 and exponent -0004 as 0.1 (every numeric field as
\* mantissa * 10 ^ exponent), and a placeholder field for gain, offset or unit
\* as the unset sentinel, which is no number.
C27_GainOffsetDecoding ==
    [][\A channel \in ChannelIds :
         (lastOp' = "readChannelConfig")
         => \A reply \in ConfigReplies(channel) :
              (ReadChannelConfig(channel, reply) /\ raised' = "none")
              => \A p \in ChangedEntries(openChannels, openChannels') :
                   LET fields == FieldsOf(ReadUntil(inWaiting \o reply, _endFlag).data)
                       cfg == openChannels'[p[1]][p[2]].cfg
                   IN /\ \A k \in {1, 2} :
                            IF HasDashes(fields[k + 1])
                            THEN cfg[k].unset
                            ELSE SameValue(cfg[k], FieldNumber(fields[k + 1]))
                      /\ HasDashes(fields[4]) => cfg[3] = "None"]_vars

(***************************************************************************)
(* One-shot reads.                                                         *)
(***************************************************************************)
\* The number of bytes of line a read through the first byte t and extra more
\* bytes takes: all of them when t does not come.
TakenThrough(line, t, extra) ==
    IF \E i \in 1..Len(line) : line[i] = t
    THEN Min(Len(line), extra + CHOOSE i \in 1..Len(line) :
                                    line[i] = t /\ \A j \in 1..(i - 1) : line[j] # t)
    ELSE Len(line)

\* C28: readDataOnce for category Curve awaits its response, read through the
\* end flag 0x7F and one more byte, with 5 times the standard timeout and
\* returns with the standard timeout set, whatever the response; for every
\* other category the response is read through 0x04 and the timeout is not
\* modified.
C28_OneShotTimeouts ==
    [][\A cat \in OnceCategories :
         (lastOp' = "readDataOnce" /\ UpperName(cat) \in Categories)
         => \A reply \in RADAReplies(UpperName(cat)) :
              ReadDataOnce(cat, reply)
              => IF UpperName(cat) = "C"
                 THEN /\ readTimeout' = 5 * PortTimeout
                      /\ timeout' = PortTimeout
                      /\ Len(inWaiting') = Len(inWaiting \o reply)
                            - TakenThrough(inWaiting \o reply, _endFlag, 1)
                 ELSE /\ readTimeout' = timeout
                      /\ timeout' = timeout
                      /\ Len(inWaiting') = Len(inWaiting \o reply)
                            - TakenThrough(inWaiting \o reply, _endOfTransmission, 0)]_vars

\* C28 witness: a curve read whose response ended with the end flag and a
\* checksum byte has returned: it waited with timeout 5 and left timeout 1.
C28_Witness ==
    /\ lastOp = "readDataOnce"
    /\ PySlice(written, 0, 6) = Lit(<<"R", "A", "D", "A", "U", "C">>)
    /\ ret # "INVALID"
    /\ readTimeout = 5 /\ timeout = PortTimeout
    /\ inWaiting = <<>> /\ sent = 0

(***************************************************************************)
(* Request and response.                                                   *)
(***************************************************************************)
\* The operations that write a request, and the names of the error codes.
WritingOps == {"readCIType", "getMaxProtocol", "setProtocol", "defineAcquiredData",
               "readDataOnce", "startDataStream", "endDataStream", "readChannelConfig"}
ErrorNames == {Error[c] : c \in DOMAIN Error}

\* C29: every operation that writes a request reads and classifies a response
\* before it returns: when it returns, it returns a decoded payload or an
\* ErrorCode.
C29_EveryRequestAwaitsResponse ==
    [][(lastOp' \in WritingOps /\ ~DeviceStep /\ written' # <<>> /\ raised' = "none")
         => (ret' = "bytes" \/ ret' \in ErrorNames)]_vars

\* C30: endDataStream, readChannelConfig and the curve readDataOnce take their
\* response through the end flag 0x7F and the checksum byte after it, so that
\* nothing of it is left on the line when they return.
C30_BinaryResponsesConsumed ==
    [][/\ (lastOp' = "endDataStream")
           => \A reply \in ESCReplies :
                EndDataStream(reply)
                => Len(inWaiting') = Len(inWaiting \o reply)
                                       - TakenThrough(inWaiting \o reply, _endFlag, 1)
       /\ (lastOp' = "readChannelConfig")
           => \A channel \in ChannelIds : \A reply \in RCCOReplies(channel) :
                (ReadChannelConfig(channel, reply) /\ ret' # "INVALID")
                => Len(inWaiting') = Len(inWaiting \o reply)
                                       - TakenThrough(inWaiting \o reply, _endFlag, 1)
       /\ (lastOp' = "readDataOnce")
           => \A reply \in RADAReplies("C") :
                ReadDataOnce("C", reply)
                => Len(inWaiting') = Len(inWaiting \o reply)
                                       - TakenThrough(inWaiting \o reply, _endFlag, 1)]_vars

(***************************************************************************)
(* Shared resources.                                                       *)
(***************************************************************************)
\* The list new is the list old with samples added at its end.
Extends(old, new) == Len(old) <= Len(new) /\ SubSeq(new, 1, Len(old)) = old

\* C31: readDataStream never changes the open channel table, the
\* extended-mode flag or the active protocol version, and it only appends at
\* the end of sample lists; no command other than defineAcquiredData (and
\* startDataStream) changes a sample list, and the open channel table is
\* changed only by defineAcquiredData and readChannelConfig.
C31_SharedResourceDiscipline ==
    [][/\ (lastOp' = "readDataStream" /\ ~DeviceStep)
            => /\ openChannels' = openChannels
               /\ _extendedModeActive' = _extendedModeActive
               /\ _activeProtocolVersion' = _activeProtocolVersion
               /\ \A c \in Categories :
                     /\ DOMAIN channelData'[c] = DOMAIN channelData[c]
                     /\ \A ch \in DOMAIN channelData[c] :
                           Extends(channelData[c][ch], channelData'[c][ch])
       /\ (channelData' # channelData)
            => lastOp' \in {"readDataStream", "defineAcquiredData", "startDataStream"}
       /\ (openChannels' # openChannels)
            => lastOp' \in {"defineAcquiredData", "readChannelConfig"}]_vars

\* C31 witness: in extended mode with a protocol version set, readDataStream
\* has appended the second breath value behind the first of channel 201.
C31_Witness ==
    /\ lastOp = "readDataStream" /\ raised = "none"
    /\ _extendedModeActive
    /\ _activeProtocolVersion # IntValue(0)
    /\ 201 \in DOMAIN channelData["B"]
    /\ channelData["B"][201] = <<1, 256>>
    /\ openChannels["B"] = <<ConfiguredEntry(201)>>

\* A binary response: a body, the end flag and one more byte.
BinaryFramed(resp) == Len(resp) >= 2 /\ resp[Len(resp) - 1] = _endFlag
BinaryBody(resp) == SubSeq(resp, 1, Len(resp) - 2)

\* The response a curve read takes from the line for the answer reply.
CurveResponse(reply) ==
    LET r1 == ReadUntil(inWaiting \o reply, _endFlag)
    IN r1.data \o ReadN(r1.rest, 1).data

\* C32: a curve one-shot read whose binary response is well formed (body, end
\* flag 0x7F, a checksum byte equal to the exclusive or of the body) returns
\* NO_ERROR, and one whose checksum byte is wrong returns RX_CHKSUM.
C32_CurveReadClassification ==
    [][(lastOp' = "readDataOnce")
         => \A cat \in {"C", "c"} : \A reply \in RADAReplies("C") :
              (ReadDataOnce(cat, reply) /\ BinaryFramed(CurveResponse(reply)))
              => LET resp == CurveResponse(reply)
                 IN ret' = IF resp[Len(resp)] = XorAll(BinaryBody(resp))
                           THEN "NO_ERROR" ELSE "RX_CHKSUM"]_vars

(***************************************************************************)
(* Channel configuration and the tables.                                   *)
(***************************************************************************)
\* The response readChannelConfig takes from the line for the answer reply.
ConfigResponse(reply) == ReadUntil(inWaiting \o reply, _endFlag).data

\* C33: when the response to RCCO is an error frame or fails checksum
\* validation, readChannelConfig leaves the open channel table exactly as it
\* was and returns the error code.
C33_ConfigErrorLeavesTable ==
    [][\A channel \in ChannelIds :
         (lastOp' = "readChannelConfig" /\ ~DeviceStep)
         => \A reply \in ConfigReplies(channel) :
              (ReadChannelConfig(channel, reply) /\ ret' # "INVALID")
              => LET resp == ConfigResponse(reply)
                 IN /\ BeginsWithER(resp)
                         => /\ openChannels' = openChannels
                            /\ ret' = Error[CodeOf(resp)]
                    /\ (~BeginsWithER(resp) /\ ~ChecksumValid(resp))
                         => /\ openChannels' = openChannels
                            /\ ret' = "RX_CHKSUM"]_vars

\* The 1-based positions of channel's entry in the table oc, configured or not.
PositionsOf(oc, channel) ==
    {p \in Categories \X (1..Len(FiveCurves)) :
        p[2] <= Len(oc[p[1]]) /\ oc[p[1]][p[2]].ch = channel}

\* C34: a second readChannelConfig with the same channel id, issued after a
\* first that returned NO_ERROR, does not return INVALID and leaves a
\* configuration of the channel at the position the entry had.
C34_ConfigRepeatable ==
    [][\A channel \in ChannelIds :
         (/\ lastOp' = "readChannelConfig" /\ ~DeviceStep
          /\ Configured(channel) /\ ret = "NO_ERROR")
         => \A reply \in ConfigReplies(channel) :
              (ReadChannelConfig(channel, reply) /\ ~BeginsWithER(ConfigResponse(reply))
                 /\ ChecksumValid(ConfigResponse(reply)))
              => /\ ret' # "INVALID"
                 /\ PositionsOf(openChannels', channel) = PositionsOf(openChannels, channel)
                 /\ \A p \in PositionsOf(openChannels', channel) :
                       openChannels'[p[1]][p[2]].kind = "list"]_vars

\* C35: every entry of a category's open channel table has a sample list
\* stored under its channel id in the same category, and the category holds
\* sample lists for no channel id that is absent from its table.
C35_RegistryConsistency ==
    \A c \in Categories :
       DOMAIN channelData[c] = {openChannels[c][i].ch : i \in 1..Len(openChannels[c])}

(***************************************************************************)
(* The stream decoder and the tables.                                      *)
(***************************************************************************)
\* The states in which the next byte completes a two-byte value.
SecondByteStates == {"CURVE_SECND_BYTE", "BREATH_SECND_BYTE", "SETTING_SECND_BYTE"}

\* C36: readDataStream attributes a completed value to the channel at the
\* cycle position whether or not readChannelConfig was performed for it: a
\* channel opened by defineAcquiredData and never configured receives the
\* sample and decoding does not fail.
C36_UnconfiguredChannelReceives ==
    [][(/\ lastOp' = "readDataStream" /\ ~DeviceStep
        /\ state \in SecondByteStates /\ inWaiting # <<>>
        /\ category \in Categories
        /\ channelIndex < Len(openChannels[category])
        /\ openChannels[category][channelIndex + 1].kind = "int")
         => LET ch == openChannels[category][channelIndex + 1].ch
            IN /\ raised' = "none"
               /\ ch \in DOMAIN channelData'[category]
               /\ Len(channelData'[category][ch]) > Len(channelData[category][ch])]_vars

\* readDataStream, decoding the bytes buf on object o, comes to apply a
\* differential value to a channel that holds no sample.
RECURSIVE DeltaOnEmpty(_, _, _)
DeltaOnEmpty(oc, o, buf) ==
    IF buf = <<>> \/ o.raised # "none" THEN FALSE
    ELSE \/ /\ o.state = "DIFF_VAL_BYTE"
            /\ Head(buf) \notin {_valueFlag, _endFlag, _phaseFlag}
            /\ ChannelLookup(oc, o).exc = "none"
            /\ o.channelData[o.category][ChannelLookup(oc, o).ch] = <<>>
         \/ DeltaOnEmpty(oc, StepByte(oc, o, Head(buf)), Tail(buf))

\* C37: whenever readDataStream applies a curve delta byte, the sample list of
\* the channel at the cycle position is non-empty, for every byte stream.
C37_DeltaHasBase ==
    [][(lastOp' = "readDataStream" /\ ~DeviceStep)
         => ~DeltaOnEmpty(openChannels, Self, inWaiting)]_vars

\* C38: after every consumed byte and every command the decoder is in
\* PHASE_FLAG exactly when the category is none, and then the cycle position
\* is 0 and the message accumulator is empty; in a phase-tag, curve-value or
\* curve-delta state the category is Curve, in a breath value state Breath,
\* in a setting value state Setting.
C38_StateCategoryConsistency ==
    (raised = "none")
      => /\ (state = "PHASE_FLAG") <=> (category = "")
         /\ (state = "PHASE_FLAG") => (channelIndex = 0 /\ message = <<>>)
         /\ (state \in {"PHASE_DATA", "CURVE_VAL_FLAG", "CURVE_FIRST_BYTE",
                        "CURVE_SECND_BYTE", "DIFF_VAL_BYTE"}) => category = "C"
         /\ (state \in {"BREATH_FIRST_BYTE", "BREATH_SECND_BYTE"}) => category = "B"
         /\ (state \in {"SETTING_FIRST_BYTE", "SETTING_SECND_BYTE"}) => category = "S"

\* C39: a call of readDataStream with n bytes waiting consumes exactly n
\* bytes, one per iteration, and returns with the decoder in a state other
\* than ERROR.
C39_ReadDataStreamTerminates ==
    [][(lastOp' = "readDataStream" /\ ~DeviceStep)
         => /\ raised' = "none" /\ ret' = "None"
            /\ nRead' = Len(inWaiting)
            /\ inWaiting' = <<>>
            /\ state' # "ERROR"]_vars

====
